---------------------------- MODULE Spec2Model ----------------------------
(***************************************************************************)
(* A model of the gomodbus slave: the RegisterHandler (handler.go), the    *)
(* Frame/Header types (frame.go) and the per-connection serve loop with    *)
(* its response writer (slave.go).                                         *)
(*                                                                         *)
(* Go slices are 0-based and half open, TLA+ sequences are 1-based: the    *)
(* Go expression s[lo:hi] is Slice(s, lo, hi) == SubSeq(s, lo+1, hi).      *)
(* uint8 / uint16 arithmetic keeps its width (% 256, % 65536).             *)
(***************************************************************************)
EXTENDS Integers, Sequences, FiniteSets, TLC

VARIABLES
    h,          \* the RegisterHandler: Coils, DiscreteInputs, Inputs, Holdings
    pc,         \* position of the connection's serve goroutine
    req,        \* the Frame of the request being served (w.req)
    w,          \* the response of the request being served
    sent,       \* bytes flushed to the socket for the request being served
    panicked,   \* the handler of the request being served panicked
    bitSeq,     \* a []bool argument or result of the bit conversions
    byteSeq,    \* a []byte argument or result of the bit conversions
    back,       \* the result of converting a conversion's result back
    stream,     \* the bytes of the connection that ReadFrame has not consumed
    err,        \* the error of the last ReadFrame
    decoded,    \* the transaction ids of the frames ReadFrame returned, in order
    wire,       \* what each finishRequest put on the socket, in order
    werr,       \* c.werr: the first error of a write to the socket
    ending,     \* the error a read of the socket returns once its bytes are used up
    lrN,        \* c.lr.N: the bytes the connection's LimitedReader still lets through
    notified,   \* the states the ConnState hook was called with, in order
    pooled,     \* the buffers of the connection put back into the sync.Pools
    closes,     \* the calls of c.rwc.Close()
    listening,  \* Server.Serve: the listener l is open
    returned,   \* Server.Serve: the error Serve returned, "nil" while it runs
    tempDelay,  \* Server.Serve: tempDelay, in milliseconds
    slept,      \* Server.Serve: the argument of the last time.Sleep, in milliseconds
    streak,     \* the transient accept errors since the last successful accept
    conns       \* the connections accepted by Server.Serve, in order

\* the variables of the bit conversions
bitVars == <<bitSeq, byteSeq, back>>

\* the variables of a connection's socket
netVars == <<stream, err, decoded, wire, werr, ending, lrN, notified, pooled,
             closes>>

\* the variables of Server.Serve and the connections it accepted
srvVars == <<listening, returned, tempDelay, slept, streak, conns>>

vars == <<h, pc, req, w, sent, panicked, bitVars, netVars, srvVars>>

\* nothing has been put into bufioReaderPool, bufioWriter4kPool,
\* bufioWriter2kPool
NoPuts == [reader |-> 0, writer4k |-> 0, writer2k |-> 0]

\* Server.Serve has not been called
NoServer ==
    /\ listening = FALSE
    /\ returned = "nil"
    /\ tempDelay = 0
    /\ slept = 0
    /\ streak = 0
    /\ conns = <<>>

---------------------------------------------------------------------------
(* Bounds of the model *)

\* longest bit bank (Coils, DiscreteInputs) of an initial fixture
MaxCoils == 9
\* longest register bank (Inputs, Holdings) of an initial fixture
MaxRegs == 2
\* longest []bool handed to BoolsToBytes
MaxBools == 9
\* longest []byte handed to BytesToBools
MaxBytes == 2

---------------------------------------------------------------------------
(* frame.go: constants *)

TcpPid == 0

ReadCoilsCode == 1
ReadDiscreteInputsCode == 2
ReadHoldingRegistersCode == 3
ReadInputRegistersCode == 4
WriteSingleCoilCode == 5
WriteSingleRegisterCode == 6
ReadExceptionStatus == 7
WriteMultipleCoilsCode == 15
WriteMultipleRegistersCode == 16
ReportSlaveId == 17
WriteAndReadRegistersCode == 23

IllegalFunction == 1
IllegalDataAddress == 2
IllegalDataValue == 3
SlaveFailure == 4

\* noLimit, (1 << 63) - 1 in slave.go: here the largest integer TLC holds,
\* which like the original is beyond every number of bytes a connection reads
noLimit == 2147483647

---------------------------------------------------------------------------
(* Fixed-width integers and byte order (encoding/binary, big endian) *)

Add8(a, b) == (a + b) % 256

Add16(a, b) == (a + b) % 65536

\* binary.BigEndian.Uint16(data[i:i+2])
Uint16(data, i) == data[i + 1] * 256 + data[i + 2]

\* a uint16 emitted low byte first
PutUint16LittleEndian(v) == <<v % 256, v \div 256>>

\* the two bytes binary.Write emits for a uint16
PutUint16(v) == <<v \div 256, v % 256>>

\* s[lo:hi]
Slice(s, lo, hi) == SubSeq(s, lo + 1, hi)

\* Go's run-time check of s[lo:hi] on a slice of capacity n
SliceInRange(lo, hi, n) == lo <= hi /\ hi <= n

\* registers emitted low byte first
RECURSIVE WriteUint16sLittleEndian(_)
WriteUint16sLittleEndian(regs) ==
    IF regs = <<>> THEN <<>>
    ELSE PutUint16LittleEndian(Head(regs))
             \o WriteUint16sLittleEndian(Tail(regs))

\* binary.Write(buf, binary.BigEndian, regs) for regs []uint16
RECURSIVE WriteUint16s(_)
WriteUint16s(regs) ==
    IF regs = <<>> THEN <<>>
    ELSE PutUint16(Head(regs)) \o WriteUint16s(Tail(regs))

\* the n registers binary.Read decodes from the first 2n bytes of bytes
ReadUint16s(bytes, n) == [i \in 1..n |-> Uint16(bytes, 2 * (i - 1))]

\* binary.Write(w, binary.BigEndian, header): the 8 bytes of a Header
EncodeHeader(hd) ==
    PutUint16(hd.Tid) \o PutUint16(hd.Pid) \o PutUint16(hd.Length)
        \o <<hd.Uid, hd.Fcode>>

---------------------------------------------------------------------------
(* handler.go: bit packing *)

\* value |= 0x80 >> k: the range packed from the high bit down
SetBitFromTop(value, k) ==
    IF (value \div (2 ^ (7 - k))) % 2 = 1 THEN value ELSE (value + 2 ^ (7 - k)) % 256

\* value |= 1 << k
SetBit(value, k) ==
    IF (value \div (2 ^ k)) % 2 = 1 THEN value ELSE (value + 2 ^ k) % 256

RECURSIVE BoolsToBytesLoop(_, _, _, _)
BoolsToBytesLoop(bools, i, value, bytes) ==
    IF i >= Len(bools) THEN bytes
    ELSE LET v == IF bools[i + 1] THEN SetBit(value, i % 8) ELSE value
         IN  IF (i % 8 = 7) \/ i = Len(bools) - 1
             THEN BoolsToBytesLoop(bools, i + 1, 0, Append(bytes, v))
             ELSE BoolsToBytesLoop(bools, i + 1, v, bytes)

\* only whole bytes are appended: the i == len(bools)-1 flush is missing
BoolsToBytesWholeOnly(bools) ==
    BoolsToBytesLoop(SubSeq(bools, 1, 8 * (Len(bools) \div 8)), 0, 0, <<>>)

BoolsToBytes(bools) == BoolsToBytesLoop(bools, 0, 0, <<>>)

\* ((b << i) & 0x80) == 0x80: the bits taken from the high bit down
BitOfFromTop(b, i) == (b \div (2 ^ (7 - i))) % 2 = 1

\* ((b >> i) & 0x01) == 1
BitOf(b, i) == (b \div (2 ^ i)) % 2 = 1

BytesToBools(bytes) ==
    [j \in 1..(8 * Len(bytes)) |-> BitOf(bytes[((j - 1) \div 8) + 1], (j - 1) % 8)]

---------------------------------------------------------------------------
(* slave.go: the response writer *)

\* the response readRequest builds for a decoded request
NewResponse ==
    [wroteHeader |-> FALSE,
     header |-> [Tid |-> 0, Pid |-> 0, Length |-> 0, Uid |-> 0, Fcode |-> 0],
     written |-> 0,
     out |-> <<>>]

\* the length field without the unit id and function code bytes
ResponseLengthOfBody(data) == Len(data) % 65536

\* uint16(len(data) + 2)
ResponseLength(data) == (Len(data) + 2) % 65536

\* response.WriteHeader: the header goes to the buffered writer
WriteHeader(rw) ==
    [rw EXCEPT !.out = @ \o EncodeHeader(rw.header), !.wroteHeader = TRUE]

\* response.Write writing TcpPid instead of the protocol id of the request
WriteTcpPid(rw, r, data) ==
    LET w1 == IF ~rw.wroteHeader
              THEN WriteHeader([rw EXCEPT !.header =
                       [r.header EXCEPT !.Length = ResponseLength(data),
                                        !.Pid = TcpPid]])
              ELSE rw
    IN  IF Len(data) = 0 THEN w1
        ELSE [w1 EXCEPT !.written = @ + Len(data), !.out = @ \o data]

\* response.Write; w.Header() is the header of the request frame r
Write(rw, r, data) ==
    LET w1 == IF ~rw.wroteHeader
              THEN WriteHeader([rw EXCEPT !.header =
                       [r.header EXCEPT !.Length = ResponseLength(data)]])
              ELSE rw
    IN  IF Len(data) = 0 THEN w1
        ELSE [w1 EXCEPT !.written = @ + Len(data), !.out = @ \o data]

---------------------------------------------------------------------------
(* handler.go: the RegisterHandler *)

\* what a handler leaves behind: the banks, the request frame (its header is
\* what w.Header() points to), the response, and whether it panicked
Result(hh, r, rw, p) == [h |-> hh, r |-> r, w |-> rw, panic |-> p]

\* a run-time panic (slice bounds out of range): nothing more is executed
Panic(hh, r, rw) == Result(hh, r, rw, TRUE)

\* w.Header().Fcode += 0x80
ExceptionFcode(fcode) == Add8(fcode, 128)

\* w.Header().Fcode += 0x80; w.Write([]byte{code}); return
Exception(hh, r, rw, code) ==
    LET r1 == [r EXCEPT !.header.Fcode = ExceptionFcode(@)]
    IN  Result(hh, r1, Write(rw, r1, <<code>>), FALSE)

\* w.Write(append([]byte{byte(len(data))}, data...))
WriteCounted(hh, r, rw, data) ==
    Result(hh, r, Write(rw, r, <<Len(data) % 256>> \o data), FALSE)

\* ReadCoils with the range check ahead of the quantity check
ReadCoilsAddressFirst(hh, r, rw) ==
    IF Len(r.data) # 4 THEN Exception(hh, r, rw, IllegalDataValue)
    ELSE LET offset == Uint16(r.data, 0)
             num == Uint16(r.data, 2)
             end == Add16(offset, num)
         IN  IF end > Len(hh.Coils)
             THEN Exception(hh, r, rw, IllegalDataAddress)
             ELSE IF num < 1 \/ num > 2000
             THEN Exception(hh, r, rw, IllegalDataValue)
             ELSE IF ~SliceInRange(offset, end, Len(hh.Coils))
             THEN Panic(hh, r, rw)
             ELSE WriteCounted(hh, r, rw,
                      BoolsToBytes(Slice(hh.Coils, offset, end)))

ReadCoils(hh, r, rw) ==
    IF Len(r.data) # 4 THEN Exception(hh, r, rw, IllegalDataValue)
    ELSE LET offset == Uint16(r.data, 0)
             num == Uint16(r.data, 2)
             end == Add16(offset, num)
         IN  IF num < 1 \/ num > 2000
             THEN Exception(hh, r, rw, IllegalDataValue)
             ELSE IF end > Len(hh.Coils)
             THEN Exception(hh, r, rw, IllegalDataAddress)
             ELSE IF ~SliceInRange(offset, end, Len(hh.Coils))
             THEN Panic(hh, r, rw)
             ELSE WriteCounted(hh, r, rw,
                      BoolsToBytes(Slice(hh.Coils, offset, end)))

ReadDiscreteInputs(hh, r, rw) ==
    IF Len(r.data) # 4 THEN Exception(hh, r, rw, IllegalDataValue)
    ELSE LET offset == Uint16(r.data, 0)
             num == Uint16(r.data, 2)
             end == Add16(offset, num)
         IN  IF num < 1 \/ num > 2000
             THEN Exception(hh, r, rw, IllegalDataValue)
             ELSE IF end > Len(hh.DiscreteInputs)
             THEN Exception(hh, r, rw, IllegalDataAddress)
             ELSE IF ~SliceInRange(offset, end, Len(hh.DiscreteInputs))
             THEN Panic(hh, r, rw)
             ELSE WriteCounted(hh, r, rw,
                      BoolsToBytes(Slice(hh.DiscreteInputs, offset, end)))

ReadInputRegisters(hh, r, rw) ==
    IF Len(r.data) # 4 THEN Exception(hh, r, rw, IllegalDataValue)
    ELSE LET offset == Uint16(r.data, 0)
             num == Uint16(r.data, 2)
             end == Add16(offset, num)
         IN  IF num < 1 \/ num > 125
             THEN Exception(hh, r, rw, IllegalDataValue)
             ELSE IF end > Len(hh.Inputs)
             THEN Exception(hh, r, rw, IllegalDataAddress)
             ELSE IF ~SliceInRange(offset, end, Len(hh.Inputs))
             THEN Panic(hh, r, rw)
             ELSE WriteCounted(hh, r, rw,
                      WriteUint16s(Slice(hh.Inputs, offset, end)))

ReadHoldingRegisters(hh, r, rw) ==
    IF Len(r.data) # 4 THEN Exception(hh, r, rw, IllegalDataValue)
    ELSE LET offset == Uint16(r.data, 0)
             num == Uint16(r.data, 2)
             end == Add16(offset, num)
         IN  IF num < 1 \/ num > 125
             THEN Exception(hh, r, rw, IllegalDataValue)
             ELSE IF end > Len(hh.Holdings)
             THEN Exception(hh, r, rw, IllegalDataAddress)
             ELSE IF ~SliceInRange(offset, end, Len(hh.Holdings))
             THEN Panic(hh, r, rw)
             ELSE WriteCounted(hh, r, rw,
                      WriteUint16s(Slice(hh.Holdings, offset, end)))

\* WriteSingleCoil taking every value other than 0 as "on"
WriteSingleCoilNonZero(hh, r, rw) ==
    IF Len(r.data) # 4 THEN Exception(hh, r, rw, IllegalDataValue)
    ELSE LET address == Uint16(r.data, 0)
             value == Uint16(r.data, 2)
         IN  IF address >= Len(hh.Coils)
             THEN Exception(hh, r, rw, IllegalDataAddress)
             ELSE Result([hh EXCEPT !.Coils[address + 1] = (value # 0)], r,
                         Write(rw, r, r.data), FALSE)

WriteSingleCoil(hh, r, rw) ==
    IF Len(r.data) # 4 THEN Exception(hh, r, rw, IllegalDataValue)
    ELSE LET address == Uint16(r.data, 0)
             value == Uint16(r.data, 2)
         IN  IF address >= Len(hh.Coils)
             THEN Exception(hh, r, rw, IllegalDataAddress)
             ELSE IF value = 65280
             THEN Result([hh EXCEPT !.Coils[address + 1] = TRUE], r,
                         Write(rw, r, r.data), FALSE)
             ELSE IF value = 0
             THEN Result([hh EXCEPT !.Coils[address + 1] = FALSE], r,
                         Write(rw, r, r.data), FALSE)
             ELSE Exception(hh, r, rw, IllegalDataValue)

\* WriteSingleRegister storing into the input registers
WriteSingleRegisterIntoInputs(hh, r, rw) ==
    IF Len(r.data) # 4 THEN Exception(hh, r, rw, IllegalDataValue)
    ELSE LET address == Uint16(r.data, 0)
         IN  IF address >= Len(hh.Inputs)
             THEN Exception(hh, r, rw, IllegalDataAddress)
             ELSE Result([hh EXCEPT !.Inputs[address + 1] = Uint16(r.data, 2)],
                         r, Write(rw, r, r.data), FALSE)

WriteSingleRegister(hh, r, rw) ==
    IF Len(r.data) # 4 THEN Exception(hh, r, rw, IllegalDataValue)
    ELSE LET address == Uint16(r.data, 0)
         IN  IF address >= Len(hh.Holdings)
             THEN Exception(hh, r, rw, IllegalDataAddress)
             ELSE Result([hh EXCEPT !.Holdings[address + 1] = Uint16(r.data, 2)],
                         r, Write(rw, r, r.data), FALSE)

\* copy(dst, src) on dst = bank[offset:offset+num]: min(len(dst), len(src))
\* elements are copied
CopyCount(num, src) == IF num < Len(src) THEN num ELSE Len(src)

\* the bank after copy(bank[offset:offset+num], src)
CopyInto(bank, offset, num, src) ==
    [i \in 1..Len(bank) |->
        IF i > offset /\ i <= offset + CopyCount(num, src)
        THEN src[i - offset] ELSE bank[i]]

WriteMultipleCoils(hh, r, rw) ==
    IF Len(r.data) < 6 THEN Exception(hh, r, rw, IllegalDataValue)
    ELSE LET offset == Uint16(r.data, 0)
             num == Uint16(r.data, 2)
             end == Add16(offset, num)
             nb == r.data[5]
         IN  IF num < 1 \/ num > 1968
             THEN Exception(hh, r, rw, IllegalDataValue)
             ELSE IF end > Len(hh.Coils)
             THEN Exception(hh, r, rw, IllegalDataAddress)
             ELSE IF Len(r.data) # 5 + nb
             THEN Exception(hh, r, rw, SlaveFailure)
             ELSE IF ~SliceInRange(offset, end, Len(hh.Coils))
             THEN Panic(hh, r, rw)
             ELSE LET src == BytesToBools(Slice(r.data, 5, 5 + nb))
                      h1 == [hh EXCEPT !.Coils = CopyInto(@, offset, num, src)]
                  IN  IF CopyCount(num, src) # num
                      THEN Exception(h1, r, rw, SlaveFailure)
                      ELSE Result(h1, r, Write(rw, r, Slice(r.data, 0, 4)), FALSE)

\* binary.Read(buf, binary.BigEndian, regs) fails, before it stores anything,
\* when buf holds fewer than 2*len(regs) bytes
BinaryReadFails(nb, num) == nb < 2 * num

\* the registers decoded into the start of the bank, whatever the offset
StoreUint16sFromStart(bank, offset, num, bytes) ==
    [i \in 1..Len(bank) |->
        IF i <= num THEN Uint16(bytes, 2 * (i - 1)) ELSE bank[i]]

\* the bank after binary.Read has decoded num registers into bank[offset:offset+num]
StoreUint16s(bank, offset, num, bytes) ==
    [i \in 1..Len(bank) |->
        IF i > offset /\ i <= offset + num
        THEN ReadUint16s(bytes, num)[i - offset] ELSE bank[i]]

WriteMultipleRegisters(hh, r, rw) ==
    IF Len(r.data) < 7 THEN Exception(hh, r, rw, IllegalDataValue)
    ELSE LET offset == Uint16(r.data, 0)
             num == Uint16(r.data, 2)
             end == Add16(offset, num)
             nb == r.data[5]
         IN  IF num < 1 \/ num > 123
             THEN Exception(hh, r, rw, IllegalDataValue)
             ELSE IF end > Len(hh.Holdings)
             THEN Exception(hh, r, rw, IllegalDataAddress)
             ELSE IF Len(r.data) # 5 + nb
             THEN Exception(hh, r, rw, IllegalDataValue)
             ELSE IF ~SliceInRange(offset, end, Len(hh.Holdings))
             THEN Panic(hh, r, rw)
             ELSE IF BinaryReadFails(nb, num)
             THEN Exception(hh, r, rw, SlaveFailure)
             ELSE Result([hh EXCEPT !.Holdings =
                              StoreUint16s(@, offset, num, Slice(r.data, 5, 5 + nb))],
                         r, Write(rw, r, Slice(r.data, 0, 4)), FALSE)

\* WriteAndReadRegisters taking its read range before it stores the write range
WriteAndReadRegistersReadFirst(hh, r, rw) ==
    IF Len(r.data) < 11 THEN Exception(hh, r, rw, IllegalDataValue)
    ELSE LET roffset == Uint16(r.data, 0)
             rnum == Uint16(r.data, 2)
             woffset == Uint16(r.data, 4)
             wnum == Uint16(r.data, 6)
             nb == r.data[9]
             rend == Add16(roffset, rnum)
             wend == Add16(woffset, wnum)
         IN  IF rnum < 1 \/ rnum > 125 \/ wnum < 1 \/ wnum > 121
                    \/ nb # (wnum * 2) % 65536
             THEN Exception(hh, r, rw, IllegalDataValue)
             ELSE IF rend > Len(hh.Holdings) \/ wend > Len(hh.Holdings)
             THEN Exception(hh, r, rw, IllegalDataAddress)
             ELSE IF Len(r.data) # 9 + nb
             THEN Exception(hh, r, rw, IllegalDataValue)
             ELSE IF ~SliceInRange(roffset, rend, Len(hh.Holdings))
                        \/ ~SliceInRange(woffset, wend, Len(hh.Holdings))
             THEN Panic(hh, r, rw)
             ELSE WriteCounted(
                      [hh EXCEPT !.Holdings =
                          StoreUint16s(@, woffset, wnum, Slice(r.data, 9, 9 + nb))],
                      r, rw, WriteUint16s(Slice(hh.Holdings, roffset, rend)))

WriteAndReadRegisters(hh, r, rw) ==
    IF Len(r.data) < 11 THEN Exception(hh, r, rw, IllegalDataValue)
    ELSE LET roffset == Uint16(r.data, 0)
             rnum == Uint16(r.data, 2)
             woffset == Uint16(r.data, 4)
             wnum == Uint16(r.data, 6)
             nb == r.data[9]
             rend == Add16(roffset, rnum)
             wend == Add16(woffset, wnum)
         IN  IF rnum < 1 \/ rnum > 125 \/ wnum < 1 \/ wnum > 121
                    \/ nb # (wnum * 2) % 65536
             THEN Exception(hh, r, rw, IllegalDataValue)
             ELSE IF rend > Len(hh.Holdings) \/ wend > Len(hh.Holdings)
             THEN Exception(hh, r, rw, IllegalDataAddress)
             ELSE IF Len(r.data) # 9 + nb
             THEN Exception(hh, r, rw, IllegalDataValue)
             ELSE IF ~SliceInRange(woffset, wend, Len(hh.Holdings))
             THEN Panic(hh, r, rw)
             ELSE IF BinaryReadFails(nb, wnum)
             THEN Exception(hh, r, rw, SlaveFailure)
             ELSE LET h1 == [hh EXCEPT !.Holdings =
                                StoreUint16s(@, woffset, wnum, Slice(r.data, 9, 9 + nb))]
                  IN  IF ~SliceInRange(roffset, rend, Len(hh.Holdings))
                      THEN Panic(h1, r, rw)
                      ELSE WriteCounted(h1, r, rw,
                               WriteUint16s(Slice(h1.Holdings, roffset, rend)))

ServeModbus(hh, r, rw) ==
    CASE r.header.Fcode = ReadCoilsCode -> ReadCoils(hh, r, rw)
      [] r.header.Fcode = ReadDiscreteInputsCode -> ReadDiscreteInputs(hh, r, rw)
      [] r.header.Fcode = ReadHoldingRegistersCode -> ReadHoldingRegisters(hh, r, rw)
      [] r.header.Fcode = ReadInputRegistersCode -> ReadInputRegisters(hh, r, rw)
      [] r.header.Fcode = WriteSingleCoilCode -> WriteSingleCoil(hh, r, rw)
      [] r.header.Fcode = WriteSingleRegisterCode -> WriteSingleRegister(hh, r, rw)
      [] r.header.Fcode = WriteMultipleCoilsCode -> WriteMultipleCoils(hh, r, rw)
      [] r.header.Fcode = WriteMultipleRegistersCode -> WriteMultipleRegisters(hh, r, rw)
      [] r.header.Fcode = WriteAndReadRegistersCode -> WriteAndReadRegisters(hh, r, rw)
      [] r.header.Fcode = ReadExceptionStatus -> Result(hh, r, rw, FALSE)
      [] r.header.Fcode = ReportSlaveId -> Result(hh, r, rw, FALSE)
      [] OTHER -> Exception(hh, r, rw, IllegalFunction)

---------------------------------------------------------------------------
(* The handler's banks at start-up.  As in the fixtures of the tests, one   *)
(* bank is populated and the others are left nil; one more fixture gives    *)
(* every bank one element.                                                  *)

Zeros(n) == [i \in 1..n |-> 0]

Falses(n) == [i \in 1..n |-> FALSE]

\* the bits the owner of the process put into DiscreteInputs: 0xAC, 0xDB, 0x35, ...
InputBits(n) == SubSeq(BytesToBools(<<172, 219, 53, 172>>), 1, n)

\* the values the owner of the process put into Inputs
InputWords(n) == [i \in 1..n |-> IF i % 2 = 1 THEN 10 ELSE 555]

NoBanks == [Coils |-> <<>>, DiscreteInputs |-> <<>>, Inputs |-> <<>>, Holdings |-> <<>>]

Fixtures ==
    {[NoBanks EXCEPT !.Coils = Falses(n)] : n \in 0..MaxCoils}
        \cup {[NoBanks EXCEPT !.DiscreteInputs = InputBits(n)] : n \in 0..MaxCoils}
        \cup {[NoBanks EXCEPT !.Inputs = InputWords(n)] : n \in 0..MaxRegs}
        \cup {[NoBanks EXCEPT !.Holdings = Zeros(n)] : n \in 0..MaxRegs}
        \cup {[Coils |-> Falses(1), DiscreteInputs |-> InputBits(1),
               Inputs |-> InputWords(1), Holdings |-> Zeros(1)]}

---------------------------------------------------------------------------
(* The requests a client sends: decoded frames, as ReadFrame returns them  *)

\* transaction id, protocol id, unit id of a request
Envelopes ==
    {[Tid |-> 1, Pid |-> 0, Uid |-> 255], [Tid |-> 4660, Pid |-> 5, Uid |-> 17]}

\* a frame with header.Length = 2 + len(data)
Frame(env, fcode, data) ==
    [header |-> [Tid |-> env.Tid, Pid |-> env.Pid, Length |-> Len(data) + 2,
                 Uid |-> env.Uid, Fcode |-> fcode],
     data |-> data]

\* offsets and addresses: the start of a bank, and the top of the 16-bit range
Offsets == {0, 1, 2, 65535}

\* quantities around the bounds of each function
BitNums == {0, 1, 2, MaxCoils, 2000, 2001}
RegNums == {0, 1, 2, 125, 126}
CoilWriteNums == {0, 1, MaxCoils, 1968, 1969}
RegWriteNums == {0, 1, 2, 123, 124}
RWReadNums == {0, 1, 2, 126}
RWWriteNums == {0, 1, 2, 122}

\* the data bytes a write request carries are a prefix of one of these
Streams == {<<205, 107, 178, 14>>, <<2, 43, 0, 1>>}

DataBytes(streams, n) == {SubSeq(st, 1, n) : st \in streams}

\* payloads of the wrong size for an offset/quantity request
Missized == {<<0, 0, 0>>, <<0, 0, 0, 1, 0>>}

OffsetNum(nums) == {PutUint16(o) \o PutUint16(n) : o \in Offsets, n \in nums}

\* a byte count nb followed by dl data bytes
Tails(streams, nbs, dls) ==
    UNION {{<<nb>> \o d : d \in DataBytes(streams, dl)} : nb \in nbs, dl \in dls}

Payloads(fcode) ==
    CASE fcode \in {ReadCoilsCode, ReadDiscreteInputsCode} ->
            OffsetNum(BitNums) \cup Missized
      [] fcode \in {ReadHoldingRegistersCode, ReadInputRegistersCode} ->
            OffsetNum(RegNums) \cup Missized
      [] fcode = WriteSingleCoilCode ->
            OffsetNum({65280, 0, 65281, 255}) \cup Missized
      [] fcode = WriteSingleRegisterCode ->
            OffsetNum({555, 1}) \cup Missized
      [] fcode = WriteMultipleCoilsCode ->
            {p \o t : p \in OffsetNum(CoilWriteNums), t \in Tails(Streams, {0, 1, 2}, {1, 2})}
                \cup Missized
      [] fcode = WriteMultipleRegistersCode ->
            {p \o t : p \in OffsetNum(RegWriteNums), t \in Tails(Streams, {2, 4}, {2, 4})}
                \cup {<<0, 0, 0, 1, 2, 2>>}
      [] fcode = WriteAndReadRegistersCode ->
            {PutUint16(ro) \o PutUint16(rn) \o PutUint16(wo) \o PutUint16(wn) \o t :
                ro \in Offsets \ {2}, rn \in RWReadNums,
                wo \in Offsets \ {2}, wn \in RWWriteNums,
                t \in Tails({<<205, 107, 178, 14>>}, {2, 4}, {2, 4})}
                \cup {<<0, 0, 0, 1, 0, 0, 0, 1, 2, 2>>}
      [] OTHER -> {<<0>>, <<0, 0>>}

\* the nine implemented codes, the two serial-only ones, and unknown codes on
\* both sides of 0x80
Fcodes == {1, 2, 3, 4, 5, 6, 7, 15, 16, 17, 23, 0, 115, 128, 144, 255}

Requests ==
    UNION {{Frame(env, fc, d) : d \in Payloads(fc)} : env \in Envelopes, fc \in Fcodes}

NoFrame == Frame([Tid |-> 0, Pid |-> 0, Uid |-> 0], 0, <<>>)

---------------------------------------------------------------------------
(* slave.go: the serve loop of one connection *)

Init ==
    /\ NoServer
    /\ h \in Fixtures
    /\ pc = "read"
    /\ req = NoFrame
    /\ w = NewResponse
    /\ sent = <<>>
    /\ panicked = FALSE
    /\ bitSeq = <<>>
    /\ byteSeq = <<>>
    /\ back = <<>>
    /\ stream = <<>>
    /\ err = "nil"
    /\ decoded = <<>>
    /\ wire = <<>>
    /\ werr = "nil"
    /\ ending = "EOF"
    /\ lrN = noLimit
    /\ notified = <<>>
    /\ pooled = NoPuts
    /\ closes = 0

\* conn.readRequest: the next request is decoded and gets a fresh response
readRequest ==
    /\ pc = "read"
    /\ \E f \in Requests : req' = f
    /\ w' = NewResponse
    /\ pc' = "serve"
    /\ UNCHANGED <<h, sent, panicked, bitVars, netVars, srvVars>>

\* conn.serve, one request: ServeModbus, then finishRequest flushes the reply;
\* a panic of the handler is recovered and closes the connection unflushed
serve ==
    /\ pc = "serve"
    /\ LET res == ServeModbus(h, req, w)
       IN  /\ h' = res.h
           /\ req' = res.r
           /\ w' = res.w
           /\ panicked' = res.panic
           /\ sent' = IF res.panic THEN <<>> ELSE res.w.out
           /\ pc' = IF res.panic THEN "closed" ELSE "idle"
    /\ UNCHANGED <<bitVars, netVars, srvVars>>

\* shouldReuseConnection holds: the loop goes round for the next request
reuse ==
    /\ pc = "idle"
    /\ pc' = "read"
    /\ req' = NoFrame
    /\ w' = NewResponse
    /\ sent' = <<>>
    /\ UNCHANGED <<h, panicked, bitVars, netVars, srvVars>>

\* Server.Serve accepts the next connection; the handler and its banks are
\* shared by all connections of the server
accept ==
    /\ pc = "closed"
    /\ pc' = "read"
    /\ req' = NoFrame
    /\ w' = NewResponse
    /\ sent' = <<>>
    /\ panicked' = FALSE
    /\ UNCHANGED <<h, bitVars, netVars, srvVars>>

Next == readRequest \/ serve \/ reuse \/ accept

Spec == Init /\ [][Next]_vars

---------------------------------------------------------------------------
(* Reading a reply off the wire, and a request's fields *)

\* the body bytes of a flushed reply (what follows the 8 header bytes)
Body(s) == SubSeq(s, 9, Len(s))

\* s is an exception reply to function code fcode with exception code code
IsException(s, fcode, code) ==
    /\ Len(s) = 9
    /\ Uint16(s, 4) = 3
    /\ s[8] = fcode + 128
    /\ s[9] = code

\* the bank a function code addresses
BankLen(hh, fcode) ==
    CASE fcode \in {ReadCoilsCode, WriteSingleCoilCode, WriteMultipleCoilsCode} ->
            Len(hh.Coils)
      [] fcode = ReadDiscreteInputsCode -> Len(hh.DiscreteInputs)
      [] fcode = ReadInputRegistersCode -> Len(hh.Inputs)
      [] OTHER -> Len(hh.Holdings)

\* the largest quantity a function code allows
MaxQuantity(fcode) ==
    CASE fcode \in {ReadCoilsCode, ReadDiscreteInputsCode} -> 2000
      [] fcode \in {ReadHoldingRegistersCode, ReadInputRegistersCode} -> 125
      [] fcode = WriteMultipleCoilsCode -> 1968
      [] fcode = WriteMultipleRegistersCode -> 123
      [] OTHER -> 1

\* the payload has a size the function code accepts
WellSized(r) ==
    CASE r.header.Fcode \in 1..6 -> Len(r.data) = 4
      [] r.header.Fcode = WriteMultipleCoilsCode -> Len(r.data) >= 6
      [] r.header.Fcode = WriteMultipleRegistersCode -> Len(r.data) >= 7
      [] r.header.Fcode = WriteAndReadRegistersCode -> Len(r.data) >= 11
      [] OTHER -> FALSE

\* offset and quantity of a request of one range (quantity 1 for 0x05, 0x06)
OffsetOf(r) == Uint16(r.data, 0)
NumberOf(r) ==
    IF r.header.Fcode \in {WriteSingleCoilCode, WriteSingleRegisterCode}
    THEN 1 ELSE Uint16(r.data, 2)

\* a 0x17 request whose quantities and byte count pass the value checks
RWValuesOk(r) ==
    /\ Uint16(r.data, 2) \in 1..125
    /\ Uint16(r.data, 6) \in 1..121
    /\ r.data[9] = 2 * Uint16(r.data, 6)

---------------------------------------------------------------------------
(* C1 *)

\* a request whose quantity is in bounds and whose range leaves its bank
RangeOutside(hh, r) ==
    /\ WellSized(r)
    /\ IF r.header.Fcode = WriteAndReadRegistersCode
       THEN /\ RWValuesOk(r)
            /\ \/ Uint16(r.data, 0) + Uint16(r.data, 2) > Len(hh.Holdings)
               \/ Uint16(r.data, 4) + Uint16(r.data, 6) > Len(hh.Holdings)
       ELSE /\ NumberOf(r) \in 1..MaxQuantity(r.header.Fcode)
            /\ OffsetOf(r) + NumberOf(r) > BankLen(hh, r.header.Fcode)

\* C1: a request of a read or write function whose quantity is in bounds and
\* whose integer sum offset + quantity exceeds the length of the target bank
\* (sums above 65535 included) is answered with an IllegalDataAddress
\* exception; the handler does not panic and changes no bank.
C1_AddressRange ==
    [][(pc = "serve" /\ RangeOutside(h, req)) =>
        /\ ~panicked'
        /\ IsException(sent', req.header.Fcode, IllegalDataAddress)
        /\ h' = h]_vars

---------------------------------------------------------------------------
(* C2 *)

\* a well-sized request whose quantity (for 0x17: either quantity) is outside
\* the bounds of its function
QuantityOutside(r) ==
    /\ WellSized(r)
    /\ CASE r.header.Fcode \in {1, 2, 3, 4, 15, 16} ->
                NumberOf(r) \notin 1..MaxQuantity(r.header.Fcode)
         [] r.header.Fcode = WriteAndReadRegistersCode ->
                \/ Uint16(r.data, 2) \notin 1..125
                \/ Uint16(r.data, 6) \notin 1..121
         [] OTHER -> FALSE

\* C2: a well-sized request of a function with a quantity bound whose
\* quantity is below 1 or above the bound is answered with IllegalDataValue,
\* whatever its offset and the length of the bank are: the quantity is
\* checked before the address.
C2_QuantityBeforeAddress ==
    [][(pc = "serve" /\ QuantityOutside(req)) =>
        /\ ~panicked'
        /\ IsException(sent', req.header.Fcode, IllegalDataValue)
        /\ h' = h]_vars

\* a ReadCoils request for 2001 coils at offset 65535, outside every bank,
\* has been answered with IllegalDataValue
C2_Witness ==
    /\ pc = "idle"
    /\ Len(req.data) = 4
    /\ Uint16(req.data, 0) = 65535
    /\ Uint16(req.data, 2) = 2001
    /\ IsException(sent, ReadCoilsCode, IllegalDataValue)

---------------------------------------------------------------------------
(* C3 *)

\* a 0x17 request that passes every check: both ranges lie inside Holdings
RWValid(hh, r) ==
    /\ r.header.Fcode = WriteAndReadRegistersCode
    /\ Len(r.data) >= 11
    /\ RWValuesOk(r)
    /\ Len(r.data) = 9 + r.data[9]
    /\ Uint16(r.data, 0) + Uint16(r.data, 2) <= Len(hh.Holdings)
    /\ Uint16(r.data, 4) + Uint16(r.data, 6) <= Len(hh.Holdings)

\* what register a (0-based) must read as after the request r on banks hh: the
\* value r carries for it when a is in the write range, its old value otherwise
RWExpected(hh, r, a) ==
    LET woffset == Uint16(r.data, 4)
        wnum == Uint16(r.data, 6)
    IN  IF woffset <= a /\ a < woffset + wnum
        THEN Uint16(r.data, 9 + 2 * (a - woffset))
        ELSE hh.Holdings[a + 1]

\* C3: a valid WriteAndReadRegisters request stores its write range before
\* it takes its read range: the reply holds, for every register of the read
\* range, the value this request carries for it if it is in the write range
\* too, and its value from before the request otherwise.
C3_WriteThenRead ==
    [][(pc = "serve" /\ RWValid(h, req)) =>
        LET roffset == Uint16(req.data, 0)
            rnum == Uint16(req.data, 2)
        IN  /\ ~panicked'
            /\ sent'[8] = WriteAndReadRegistersCode
            /\ Len(Body(sent')) = 1 + 2 * rnum
            /\ Body(sent')[1] = 2 * rnum
            /\ \A i \in 0..(rnum - 1) :
                   Uint16(Body(sent'), 1 + 2 * i) = RWExpected(h, req, roffset + i)]_vars

\* registers 0 and 1 were read while register 1 alone was written: the reply
\* holds an older, non-zero value of register 0 and the value just written
C3_Witness ==
    /\ pc = "idle"
    /\ RWValid(h, req)
    /\ Uint16(req.data, 0) = 0 /\ Uint16(req.data, 2) = 2
    /\ Uint16(req.data, 4) = 1 /\ Uint16(req.data, 6) = 1
    /\ Len(sent) = 13
    /\ Uint16(sent, 9) # 0
    /\ Uint16(sent, 11) = Uint16(req.data, 9)
    /\ Uint16(sent, 11) # Uint16(sent, 9)

---------------------------------------------------------------------------
(* C4 *)

\* C4: every exception reply (a reply whose body is one byte) carries the
\* request's function code plus 0x80, with bit 0x80 set, for every 8-bit
\* function code of the request, and a header length of 3.
C4_ExceptionFcode ==
    [][(pc = "serve" /\ pc' = "idle" /\ Len(sent') = 9) =>
        /\ sent'[8] = req.header.Fcode + 128
        /\ sent'[8] >= 128
        /\ Uint16(sent', 4) = 3]_vars

---------------------------------------------------------------------------
(* C5 *)

\* C5 as stated: every reply carries protocol id 0.
C5_ProtocolIdZero ==
    (pc = "idle" /\ sent # <<>>) => Uint16(sent, 2) = TcpPid

\* C5: every reply carries the protocol id of its request, so it is 0 exactly
\* when the request carried 0.
C5_ProtocolIdEchoed ==
    (pc = "idle" /\ sent # <<>>) => Uint16(sent, 2) = req.header.Pid

\* a request with protocol id 5 has been answered
C5_Witness ==
    /\ pc = "idle"
    /\ req.header.Pid = 5
    /\ Len(sent) >= 8

---------------------------------------------------------------------------
(* C6 *)

\* C6: every reply carries the transaction id and the unit id of its request
\* and a length field of 2 + the number of body bytes written.
C6_ReplyEnvelope ==
    (pc = "idle" /\ sent # <<>>) =>
        /\ Len(sent) >= 8
        /\ Uint16(sent, 0) = req.header.Tid
        /\ sent[7] = req.header.Uid
        /\ Uint16(sent, 4) = 2 + Len(Body(sent))
        /\ w.written = Len(Body(sent))

\* a ReadCoils reply with a body of three bytes has been sent for
\* transaction 4660 on unit 17
C6_Witness ==
    /\ pc = "idle"
    /\ req.header.Tid = 4660
    /\ req.header.Uid = 17
    /\ req.header.Fcode = ReadCoilsCode
    /\ Len(sent) = 11

---------------------------------------------------------------------------
(* C7 *)

\* what C7 says of a WriteSingleCoil request r served on banks hh, leaving
\* banks hh2 and the reply s
SingleCoilRule(hh, r, hh2, s) ==
    LET address == Uint16(r.data, 0)
        value == Uint16(r.data, 2)
    IN  CASE value = 65280 ->
                address < Len(hh2.Coils) /\ hh2.Coils[address + 1] = TRUE
          [] value = 0 ->
                address < Len(hh2.Coils) /\ hh2.Coils[address + 1] = FALSE
          [] OTHER ->
                /\ IsException(s, WriteSingleCoilCode, IllegalDataValue)
                /\ hh2.Coils = hh.Coils

\* C7 as stated: for every WriteSingleCoil request with a 4-byte payload and
\* every address, value 0xFF00 sets the addressed coil, value 0x0000 clears
\* it, and any other value yields IllegalDataValue and leaves Coils unchanged.
C7_EveryAddress ==
    [][(pc = "serve" /\ req.header.Fcode = WriteSingleCoilCode
            /\ Len(req.data) = 4) =>
        SingleCoilRule(h, req, h', sent')]_vars

\* C7: the same for every address inside the coil bank.
C7_SingleCoilValue ==
    [][(pc = "serve" /\ req.header.Fcode = WriteSingleCoilCode
            /\ Len(req.data) = 4 /\ Uint16(req.data, 0) < Len(h.Coils)) =>
        SingleCoilRule(h, req, h', sent')]_vars

\* value 0xFF01 for a coil that is set and inside the bank has been refused
C7_Witness ==
    /\ pc = "idle"
    /\ Len(req.data) = 4
    /\ Uint16(req.data, 0) < Len(h.Coils)
    /\ Uint16(req.data, 2) = 65281
    /\ h.Coils[Uint16(req.data, 0) + 1] = TRUE
    /\ IsException(sent, WriteSingleCoilCode, IllegalDataValue)

---------------------------------------------------------------------------
(* C8 *)

\* C8: a WriteMultipleRegisters request with an in-bounds quantity, a range
\* inside Holdings and a byte count that differs from 2 * quantity (the
\* payload length agreeing with the byte count) is answered with
\* IllegalDataValue, and no holding register changes.
C8_RegisterByteCount ==
    [][(/\ pc = "serve"
        /\ req.header.Fcode = WriteMultipleRegistersCode
        /\ Len(req.data) >= 7
        /\ Uint16(req.data, 2) \in 1..123
        /\ Uint16(req.data, 0) + Uint16(req.data, 2) <= Len(h.Holdings)
        /\ req.data[5] # 2 * Uint16(req.data, 2)
        /\ Len(req.data) = 5 + req.data[5]) =>
        /\ IsException(sent', WriteMultipleRegistersCode, IllegalDataValue)
        /\ h'.Holdings = h.Holdings]_vars

---------------------------------------------------------------------------
(* C9 *)

\* ceil(q / 8)
BytesFor(q) == (q + 7) \div 8

\* C9: a WriteMultipleCoils request with an in-bounds quantity, a range
\* inside Coils and a byte count that differs from ceil(quantity / 8), or that
\* does not agree with the payload length, is answered with SlaveFailure.
C9_CoilByteCount ==
    [][(/\ pc = "serve"
        /\ req.header.Fcode = WriteMultipleCoilsCode
        /\ Len(req.data) >= 6
        /\ Uint16(req.data, 2) \in 1..1968
        /\ Uint16(req.data, 0) + Uint16(req.data, 2) <= Len(h.Coils)
        /\ \/ req.data[5] # BytesFor(Uint16(req.data, 2))
           \/ Len(req.data) # 5 + req.data[5]) =>
        IsException(sent', WriteMultipleCoilsCode, SlaveFailure)]_vars

---------------------------------------------------------------------------
(* C10 *)

\* bit k of byte b
Bit(b, k) == (b \div (2 ^ k)) % 2 = 1

\* body is the byte count ceil(q/8) and bits[offset .. offset+q) packed from
\* the low bit up, the high bits of the last byte zero
PackedBits(body, bits, offset, q) ==
    /\ Len(body) = 1 + BytesFor(q)
    /\ body[1] = BytesFor(q)
    /\ \A i \in 0..(q - 1) : Bit(body[2 + (i \div 8)], i % 8) = bits[offset + i + 1]
    /\ \A i \in q..(8 * BytesFor(q) - 1) : ~Bit(body[2 + (i \div 8)], i % 8)

\* C10: the reply to a valid ReadCoils / ReadDiscreteInputs request (offset,
\* q) has a body of 1 + ceil(q/8) bytes: the byte count, then the bits
\* bank[offset .. offset+q) packed from the low bit up, bit i of the range in
\* bit i mod 8 of byte i div 8, with the unused high bits of the last byte 0.
C10_PackedBits ==
    (/\ pc = "idle"
     /\ req.header.Fcode \in {ReadCoilsCode, ReadDiscreteInputsCode}
     /\ Len(req.data) = 4
     /\ Uint16(req.data, 2) \in 1..2000
     /\ Uint16(req.data, 0) + Uint16(req.data, 2) <= BankLen(h, req.header.Fcode)) =>
        /\ Len(sent) >= 8
        /\ sent[8] = req.header.Fcode
        /\ PackedBits(Body(sent),
                      IF req.header.Fcode = ReadCoilsCode
                      THEN h.Coils ELSE h.DiscreteInputs,
                      Uint16(req.data, 0), Uint16(req.data, 2))

\* nine coils have been read into two bytes that both hold set bits, next to
\* cleared ones
C10_Witness ==
    /\ pc = "idle"
    /\ req.header.Fcode = ReadCoilsCode
    /\ Len(req.data) = 4
    /\ Uint16(req.data, 2) = 9
    /\ Len(sent) = 11
    /\ sent[10] \notin {0, 255}
    /\ sent[11] = 1

---------------------------------------------------------------------------
(* C11 *)

\* body is the byte count 2q, then regs[offset .. offset+q) in order, each
\* register as its high byte followed by its low byte
PackedWords(body, regs, offset, q) ==
    /\ Len(body) = 1 + 2 * q
    /\ body[1] = 2 * q
    /\ \A i \in 0..(q - 1) :
          /\ body[2 + 2 * i] = regs[offset + i + 1] \div 256
          /\ body[3 + 2 * i] = regs[offset + i + 1] % 256

\* C11: the reply to a valid ReadHoldingRegisters / ReadInputRegisters
\* request (offset, q) has a body of 1 + 2q bytes: the byte count 2q, then
\* the current values of bank[offset .. offset+q) in order, each as a
\* big-endian 16-bit word; 0x03 reads the holding bank, 0x04 the input bank.
C11_PackedWords ==
    (/\ pc = "idle"
     /\ req.header.Fcode \in {ReadHoldingRegistersCode, ReadInputRegistersCode}
     /\ Len(req.data) = 4
     /\ Uint16(req.data, 2) \in 1..125
     /\ Uint16(req.data, 0) + Uint16(req.data, 2) <= BankLen(h, req.header.Fcode)) =>
        /\ Len(sent) >= 8
        /\ sent[8] = req.header.Fcode
        /\ PackedWords(Body(sent),
                       IF req.header.Fcode = ReadHoldingRegistersCode
                       THEN h.Holdings ELSE h.Inputs,
                       Uint16(req.data, 0), Uint16(req.data, 2))

\* two input registers, 10 and 555, have been read as 00 0A 02 2B
C11_Witness ==
    /\ pc = "idle"
    /\ req.header.Fcode = ReadInputRegistersCode
    /\ req.data = <<0, 0, 0, 2>>
    /\ h.Inputs = <<10, 555>>
    /\ Body(sent) = <<4, 0, 10, 2, 43>>

---------------------------------------------------------------------------
(* C12 *)

WriteCodes ==
    {WriteSingleCoilCode, WriteSingleRegisterCode,
     WriteMultipleCoilsCode, WriteMultipleRegistersCode}

\* the value a write request carries for element k of its range
Carried(r, k) ==
    CASE r.header.Fcode = WriteSingleCoilCode -> Uint16(r.data, 2) = 65280
      [] r.header.Fcode = WriteSingleRegisterCode -> Uint16(r.data, 2)
      [] r.header.Fcode = WriteMultipleCoilsCode ->
            Bit(r.data[6 + (k \div 8)], k % 8)
      [] OTHER -> r.data[6 + 2 * k] * 256 + r.data[7 + 2 * k]

\* after is before with the range of r overwritten by the values r carries
RangeWritten(before, after, r) ==
    /\ Len(after) = Len(before)
    /\ \A i \in 1..Len(before) :
          after[i] = IF i > OffsetOf(r) /\ i <= OffsetOf(r) + NumberOf(r)
                     THEN Carried(r, i - OffsetOf(r) - 1)
                     ELSE before[i]

\* the banks hh2 are the banks hh after the write r
BanksWritten(hh, hh2, r) ==
    IF r.header.Fcode \in {WriteSingleCoilCode, WriteMultipleCoilsCode}
    THEN /\ RangeWritten(hh.Coils, hh2.Coils, r)
         /\ hh2.DiscreteInputs = hh.DiscreteInputs
         /\ hh2.Inputs = hh.Inputs
         /\ hh2.Holdings = hh.Holdings
    ELSE /\ RangeWritten(hh.Holdings, hh2.Holdings, r)
         /\ hh2.Coils = hh.Coils
         /\ hh2.DiscreteInputs = hh.DiscreteInputs
         /\ hh2.Inputs = hh.Inputs

\* C12: every write request (0x05, 0x06, 0x0F, 0x10) that is answered with
\* a normal reply, the reply carrying the function code of the request, is
\* answered with exactly its first 4 payload bytes as the body, and
\* afterwards the addressed elements of the target bank hold the values the
\* request carries, every other element and every other bank as before.
C12_WriteEchoAndEffect ==
    [][(/\ pc = "serve"
        /\ req.header.Fcode \in WriteCodes
        /\ ~panicked'
        /\ Len(sent') >= 8
        /\ sent'[8] = req.header.Fcode) =>
           /\ Len(req.data) >= 4
           /\ Body(sent') = SubSeq(req.data, 1, 4)
           /\ BanksWritten(h, h', req)]_vars

\* holding register 1 of two has been written with 0x022B, register 0 left
C12_Witness ==
    /\ pc = "idle"
    /\ req.header.Fcode = WriteMultipleRegistersCode
    /\ req.data = <<0, 1, 0, 1, 2, 2, 43>>
    /\ Body(sent) = <<0, 1, 0, 1>>
    /\ h.Holdings = <<0, 555>>

---------------------------------------------------------------------------
(* C13 *)

\* the function codes ServeModbus has a case for
KnownCodes ==
    {ReadCoilsCode, ReadDiscreteInputsCode, ReadHoldingRegistersCode,
     ReadInputRegistersCode, WriteSingleCoilCode, WriteSingleRegisterCode,
     WriteMultipleCoilsCode, WriteMultipleRegistersCode,
     WriteAndReadRegistersCode, ReadExceptionStatus, ReportSlaveId}

\* C13: a request with any function code other than the nine implemented
\* ones and 0x07, 0x11 is answered with an exception reply (function code
\* with the high bit set) of header length 3 whose one body byte is
\* IllegalFunction, and no bank changes.
C13_IllegalFunction ==
    [][(pc = "serve" /\ req.header.Fcode \notin KnownCodes) =>
           /\ ~panicked'
           /\ Len(sent') = 9
           /\ Uint16(sent', 4) = 3
           /\ sent'[8] >= 128
           /\ sent'[9] = IllegalFunction
           /\ h' = h]_vars

---------------------------------------------------------------------------
(* handler.go: the bit conversions on their own *)

\* the byte values conversions are given: the bytes of the repository's tests
\* and the extremes
ByteValues == {0, 1, 6, 128, 172, 229, 255}

\* every sequence over S of length at most n
RECURSIVE SeqsUpTo(_, _)
SeqsUpTo(S, n) ==
    IF n = 0 THEN {<<>>}
    ELSE LET shorter == SeqsUpTo(S, n - 1)
         IN  shorter \cup {Append(s, x) : s \in {t \in shorter : Len(t) = n - 1}, x \in S}

\* a []byte or a []bool is chosen as the argument
InitBits ==
    /\ NoServer
    /\ h = NoBanks
    /\ req = NoFrame
    /\ w = NewResponse
    /\ sent = <<>>
    /\ panicked = FALSE
    /\ back = <<>>
    /\ stream = <<>>
    /\ err = "nil"
    /\ decoded = <<>>
    /\ wire = <<>>
    /\ werr = "nil"
    /\ ending = "EOF"
    /\ lrN = noLimit
    /\ notified = <<>>
    /\ pooled = NoPuts
    /\ closes = 0
    /\ \/ /\ pc = "bytes"
          /\ byteSeq \in SeqsUpTo(ByteValues, MaxBytes)
          /\ bitSeq = <<>>
       \/ /\ pc = "bools"
          /\ bitSeq \in SeqsUpTo(BOOLEAN, MaxBools)
          /\ byteSeq = <<>>

\* bools := BytesToBools(b)
bytesToBools ==
    /\ pc = "bytes"
    /\ bitSeq' = BytesToBools(byteSeq)
    /\ pc' = "bytes-bools"
    /\ UNCHANGED <<h, req, w, sent, panicked, byteSeq, back, netVars, srvVars>>

\* BoolsToBytes(bools) of the bools just converted
boolsBackToBytes ==
    /\ pc = "bytes-bools"
    /\ back' = BoolsToBytes(bitSeq)
    /\ pc' = "bytes-bools-bytes"
    /\ UNCHANGED <<h, req, w, sent, panicked, byteSeq, bitSeq, netVars, srvVars>>

\* b := BoolsToBytes(v)
boolsToBytes ==
    /\ pc = "bools"
    /\ byteSeq' = BoolsToBytes(bitSeq)
    /\ pc' = "bools-bytes"
    /\ UNCHANGED <<h, req, w, sent, panicked, bitSeq, back, netVars, srvVars>>

\* BytesToBools(b) of the bytes just converted
bytesBackToBools ==
    /\ pc = "bools-bytes"
    /\ back' = BytesToBools(byteSeq)
    /\ pc' = "bools-bytes-bools"
    /\ UNCHANGED <<h, req, w, sent, panicked, byteSeq, bitSeq, netVars, srvVars>>

NextBits ==
    bytesToBools \/ boolsBackToBytes \/ boolsToBytes \/ bytesBackToBools

SpecBits == InitBits /\ [][NextBits]_vars

---------------------------------------------------------------------------
(* C14 *)

\* C14: for every byte sequence b, BytesToBools(b) has exactly 8*len(b)
\* elements and BoolsToBytes(BytesToBools(b)) equals b.
C14_BytesRoundTrip ==
    /\ pc \in {"bytes-bools", "bytes-bools-bytes"} =>
          Len(bitSeq) = 8 * Len(byteSeq)
    /\ pc = "bytes-bools-bytes" => back = byteSeq

\* the bytes AC 06 have gone to 16 bools, set and cleared ones, and back
C14_Witness ==
    /\ pc = "bytes-bools-bytes"
    /\ byteSeq = <<172, 6>>
    /\ Len(bitSeq) = 16
    /\ bitSeq[3] /\ ~bitSeq[1] /\ bitSeq[10] /\ ~bitSeq[16]
    /\ back = <<172, 6>>

---------------------------------------------------------------------------
(* C15 *)

\* C15: for every bit sequence v, the empty one and those whose length is
\* no multiple of 8 included, BytesToBools(BoolsToBytes(v)) starts with the
\* len(v) elements of v and all its remaining elements are false.
C15_BoolsRoundTrip ==
    pc = "bools-bytes-bools" =>
        /\ Len(back) >= Len(bitSeq)
        /\ \A i \in 1..Len(bitSeq) : back[i] = bitSeq[i]
        /\ \A i \in (Len(bitSeq) + 1)..Len(back) : back[i] = FALSE

\* nine bools ending in a set one have gone to two bytes and back to 16
\* bools, the last seven of them false
C15_Witness ==
    /\ pc = "bools-bytes-bools"
    /\ Len(bitSeq) = 9
    /\ bitSeq[9] /\ bitSeq[1] /\ ~bitSeq[2]
    /\ Len(byteSeq) = 2
    /\ Len(back) = 16
    /\ back[9] /\ ~back[10]

---------------------------------------------------------------------------
(* frame.go: ReadFrame *)

\* new(Frame)
NewFrame ==
    [header |-> [Tid |-> 0, Pid |-> 0, Length |-> 0, Uid |-> 0, Fcode |-> 0],
     data |-> <<>>]

\* binary.Read(b, binary.BigEndian, &req.header) of the 8 bytes of a Header
DecodeHeader(s) ==
    [Tid |-> Uint16(s, 0), Pid |-> Uint16(s, 2), Length |-> Uint16(s, 4),
     Uid |-> s[7], Fcode |-> s[8]]

\* req.header.Length-2, a uint16
PayloadLength(length) == (length - 2) % 65536

\* the payload bytes ReadFrame asks for on the stream s (0 without a header)
Want(s) == IF Len(s) < 8 THEN 0 ELSE PayloadLength(Uint16(s, 4))

\* the byte counts short of everything a single Read may return
ShortReads == {1}

\* the byte counts the one lr.Read(req.data) may return on the stream s: all
\* that is asked for and there, or less (what is buffered, what has arrived)
ReadCounts(s) ==
    LET avail == IF Len(s) < 8 THEN 0 ELSE Len(s) - 8
        all == IF Want(s) < avail THEN Want(s) ELSE avail
    IN  {all} \cup {k \in ShortReads : k < all}

\* ReadFrame returning whatever the Read gave it: the lr.N != 0 check is missing
ReadFrameUnchecked(s, n) ==
    IF Len(s) < 8
    THEN [req |-> NewFrame,
          err |-> IF s = <<>> THEN "EOF" ELSE "unexpected EOF",
          rest |-> <<>>]
    ELSE LET hd == DecodeHeader(s)
             rest == SubSeq(s, 9, Len(s))
         IN  [req |-> [header |-> hd, data |-> SubSeq(rest, 1, n)],
              err |-> "nil",
              rest |-> SubSeq(rest, n + 1, Len(rest))]

\* ReadFrame(b) on a stream that holds the bytes s and then ends, the one
\* Read of the payload returning n bytes: the frame, the error and the bytes
\* left on the stream
ReadFrame(s, n) ==
    IF Len(s) < 8
    THEN \* io.ReadFull inside binary.Read
         [req |-> NewFrame,
          err |-> IF s = <<>> THEN "EOF" ELSE "unexpected EOF",
          rest |-> <<>>]
    ELSE LET hd == DecodeHeader(s)
             want == PayloadLength(hd.Length)
             rest == SubSeq(s, 9, Len(s))
         IN  IF want = 0 \/ rest = <<>>
             THEN \* io.LimitedReader.Read with N <= 0, or the stream has ended
                  [req |-> [header |-> hd, data |-> <<>>],
                   err |-> "EOF",
                   rest |-> rest]
             ELSE [req |-> [header |-> hd, data |-> SubSeq(rest, 1, n)],
                   err |-> IF n # want THEN "request too small" ELSE "nil",
                   rest |-> SubSeq(rest, n + 1, Len(rest))]

\* the bytes of a frame on the wire
EncodeFrame(f) == EncodeHeader(f.header) \o f.data

---------------------------------------------------------------------------
(* slave.go: one connection, from its first read to its close *)

\* how the inbound side of a connection ends: the peer closes it, the read
\* deadline passes, the peer resets it
Endings == {"EOF", "i/o timeout", "connection reset"}

\* the error ReadFrame returns on the stream s when reads of the socket end
\* with the error end and not with io.EOF: the error e of ReadFrame(s, n)
\* where it comes from the socket (binary.Read's io.ReadFull returns every
\* error but io.EOF as it is)
StreamError(s, e, end) ==
    IF end = "EOF" THEN e
    ELSE IF Len(s) < 8 \/ (Want(s) # 0 /\ Len(s) = 8) THEN end
    ELSE e

\* the outcomes of a write to the socket
WriteErrors == {"nil", "broken pipe"}

\* the error of a write is not recorded
CheckConnErrorDropped(cwerr, e) == cwerr

\* checkConnErrorWriter.Write: c.werr keeps the first error
CheckConnError(cwerr, e) == IF e # "nil" /\ cwerr = "nil" THEN e ELSE cwerr

\* the connection is reused whatever was recorded in c.werr
ShouldReuseAlways(cwerr) == TRUE

\* the connection is closed after every reply
ShouldReuseNever(cwerr) == FALSE

\* response.shouldReuseConnection; closeAfterReply is never set
shouldReuseConnection(cwerr) == cwerr = "nil"

\* the bytes of out a write to the socket takes before it fails
PartialWrites(out) == {0, Len(out) - 1}

\* what finishRequest's two Flush calls put on the socket of the buffered out
Flushed(out, e, k) == IF e = "nil" THEN out ELSE SubSeq(out, 1, k)

\* most frames a client sends before it ends the stream
MaxFrames == 2

\* the banks of the served handler
ConnFixtures ==
    {NoBanks,
     [Coils |-> Falses(1), DiscreteInputs |-> InputBits(1),
      Inputs |-> InputWords(1), Holdings |-> Zeros(1)]}

\* function code and payload of the requests a client sends: a read, a
\* write, one request for each exception code, a request whose range wraps,
\* a serial-only code
ConnRequests ==
    {<<ReadHoldingRegistersCode, <<0, 0, 0, 1>>>>,
     <<WriteSingleRegisterCode, <<0, 0, 2, 43>>>>,
     <<115, <<0>>>>,
     <<ReadInputRegistersCode, <<0, 5, 0, 1>>>>,
     <<ReadCoilsCode, <<0, 0, 0, 0>>>>,
     <<WriteMultipleCoilsCode, <<0, 0, 0, 1, 2, 1>>>>,
     <<ReadCoilsCode, <<255, 255, 0, 1>>>>,
     <<ReadExceptionStatus, <<0>>>>,
     <<ReportSlaveId, <<0>>>>}

\* the bytes of the frames fs, the i-th with transaction id i
RECURSIVE FrameBytes(_, _)
FrameBytes(fs, i) ==
    IF i > Len(fs) THEN <<>>
    ELSE EncodeFrame(Frame([Tid |-> i, Pid |-> 0, Uid |-> 255],
                           fs[i][1], fs[i][2]))
             \o FrameBytes(fs, i + 1)

\* a header with the length field length and nothing after it
HeaderOnly(length, fcode) ==
    EncodeHeader([Tid |-> 1, Pid |-> 0, Length |-> length, Uid |-> 255,
                  Fcode |-> fcode])

\* the streams of the repository's tests: TestReadFrame, TestReadFrameBadLength,
\* TestReadFrameBadHeader
TestStreams ==
    {<<0, 1, 0, 0, 0, 5, 255, 4, 2, 0, 10>>,
     <<0, 1, 0, 0, 0, 6, 255, 4, 2, 0, 10>>,
     <<0, 1>>}

\* what a client sends before the stream ends: whole frames; whole frames
\* with the last byte missing; a frame without payload, alone or before a
\* second frame; length fields below 2 followed by as many bytes as the
\* uint16 length-2 asks for
ConnStreams ==
    LET whole == {FrameBytes(fs, 1) : fs \in SeqsUpTo(ConnRequests, MaxFrames)}
    IN  whole
            \cup {SubSeq(s, 1, Len(s) - 1) : s \in whole \ {<<>>}}
            \cup TestStreams
            \cup {HeaderOnly(2, ReadExceptionStatus),
                  HeaderOnly(2, ReportSlaveId) \o HeaderOnly(3, ReportSlaveId) \o <<0>>,
                  HeaderOnly(2, ReadExceptionStatus) \o HeaderOnly(3, 115) \o <<0>>,
                  HeaderOnly(2, ReadExceptionStatus) \o <<0, 2>>}
            \cup {HeaderOnly(0, ReadHoldingRegistersCode) \o Zeros(PayloadLength(0)),
                  HeaderOnly(1, 115) \o Zeros(PayloadLength(1))}

\* the serve loop reading again after a failed read
AfterReadRetry(e) == IF e = "nil" THEN "serve" ELSE "read"

\* conn.serve after readRequest: every error breaks the loop, errTooLarge,
\* io.EOF and timeouts like all others, and the deferred close runs
AfterRead(e) == IF e = "nil" THEN "serve" ELSE "closed"

\* setState never calling the hook
NotifyNever(log, cond, state) == log

\* setState with the ConnState hook set: the hook is called with state
\* when cond holds
Notify(log, cond, state) == IF cond THEN Append(log, state) ELSE log

\* Server.Serve has accepted the connection, called setState(StateNew) and
\* started conn.serve
InitConn ==
    /\ NoServer
    /\ h \in ConnFixtures
    /\ stream \in ConnStreams
    /\ pc = "read"
    /\ req = NoFrame
    /\ w = NewResponse
    /\ sent = <<>>
    /\ panicked = FALSE
    /\ err = "nil"
    /\ decoded = <<>>
    /\ wire = <<>>
    /\ werr = "nil"
    /\ ending \in Endings
    /\ lrN = noLimit
    /\ notified = <<"new">>
    /\ pooled = NoPuts
    /\ closes = 0
    /\ bitSeq = <<>>
    /\ byteSeq = <<>>
    /\ back = <<>>

\* the deferred close leaving the connection's bufio.Reader and bufio.Writer
\* to the garbage collector
FinalFlushKeeps(p) == p

\* conn.finalFlush: if c.buf != nil, the bufio.Reader and the 4k bufio.Writer
\* of the connection are put into their pools and c.buf is set to nil
FinalFlush(p) ==
    IF p.reader = 0 /\ p.writer4k = 0
    THEN [p EXCEPT !.reader = 1, !.writer4k = 1]
    ELSE p

\* conn.close after finalFlush: if c.rwc != nil, c.rwc.Close() and c.rwc = nil
CloseSocket(n) == IF n = 0 THEN 1 ELSE n

\* response.finishRequest: putBufioWriter(w.w), the 2k writer of the response
PutResponseWriter(p) == [p EXCEPT !.writer2k = @ + 1]

\* a read of the socket blocks for ever: the peer is silent, the bytes it
\* sent are used up and no ReadTimeout is configured
ReadBlocks(s, end) ==
    end = "blocked" /\ (Len(s) < 8 \/ (Want(s) # 0 /\ Len(s) = 8))

\* conn.readRequest and what conn.serve does with its result: ReadFrame on
\* the connection's reader, c.lr.N counting the bytes read and set back to
\* noLimit after a frame; setState(StateActive) if c.lr.N != 0; on an error
\* the serve loop breaks and the deferred close and setState(StateClosed) run
connRead ==
    /\ pc = "read"
    /\ ~ReadBlocks(stream, ending)
    /\ \E n \in ReadCounts(stream) :
          LET res == ReadFrame(stream, n)
              e == StreamError(stream, res.err, ending)
              left == lrN - (Len(stream) - Len(res.rest))
              active == Notify(notified, left # 0, "active")
          IN  /\ stream' = res.rest
              /\ err' = IF left = 0 /\ e # "nil" THEN "request too large" ELSE e
              /\ IF e = "nil"
                 THEN /\ req' = res.req
                      /\ w' = NewResponse
                      /\ decoded' = Append(decoded, res.req.header.Tid)
                      /\ lrN' = noLimit
                      /\ notified' = active
                      /\ pc' = AfterRead(e)
                      /\ UNCHANGED <<pooled, closes>>
                 ELSE /\ UNCHANGED <<req, w, decoded>>
                      /\ lrN' = left
                      /\ notified' = Append(active, "closed")
                      /\ pc' = AfterRead(e)
                      /\ pooled' = FinalFlush(pooled)
                      /\ closes' = CloseSocket(closes)
    /\ UNCHANGED <<h, sent, panicked, wire, werr, ending, bitVars, srvVars>>

\* conn.serve, one request: ServeModbus, finishRequest, shouldReuseConnection;
\* a panic of the handler is recovered and closes the connection unflushed
connServe ==
    /\ pc = "serve"
    /\ LET res == ServeModbus(h, req, w)
       IN  /\ h' = res.h
           /\ req' = res.r
           /\ w' = res.w
           /\ panicked' = res.panic
           /\ IF res.panic
              THEN /\ sent' = <<>>
                   /\ pc' = "closed"
                   /\ UNCHANGED <<wire, werr>>
              ELSE IF res.w.out = <<>>
              THEN \* nothing is buffered: Flush writes nothing
                   /\ sent' = <<>>
                   /\ wire' = Append(wire, <<>>)
                   /\ pc' = IF shouldReuseConnection(werr) THEN "idle" ELSE "closed"
                   /\ UNCHANGED werr
              ELSE \E e \in WriteErrors, k \in PartialWrites(res.w.out) :
                      /\ sent' = Flushed(res.w.out, e, k)
                      /\ wire' = Append(wire, sent')
                      /\ werr' = CheckConnError(werr, e)
                      /\ pc' = IF shouldReuseConnection(werr')
                               THEN "idle" ELSE "closed"
    /\ notified' = Append(notified, IF pc' = "idle" THEN "idle" ELSE "closed")
    /\ pooled' = LET put == IF panicked' THEN pooled ELSE PutResponseWriter(pooled)
                 IN  IF pc' = "closed" THEN FinalFlush(put) ELSE put
    /\ closes' = IF pc' = "closed" THEN CloseSocket(closes) ELSE closes
    /\ UNCHANGED <<stream, err, decoded, ending, lrN, bitVars, srvVars>>

NextConn == connRead \/ connServe \/ reuse

SpecConn == InitConn /\ [][NextConn]_vars

---------------------------------------------------------------------------
(* C16 *)

\* C16: every frame ReadFrame returns without error, here the frame the
\* serve loop is about to hand to the handler, has header.Length equal to
\* 2 + len(data), whatever the 16-bit length field was, 0 and 1 included.
C16_LengthMatchesPayload ==
    (pc = "serve" /\ err = "nil") => req.header.Length = 2 + Len(req.data)

---------------------------------------------------------------------------
(* C17 *)

\* the length field of the header at the front of the stream s
LengthField(s) == s[5] * 256 + s[6]

\* the stream s starts with the five header fields (8 bytes) and at least
\* length-2 further bytes, for a length field of at least 2
HoldsFrame(s) ==
    /\ Len(s) >= 8
    /\ LengthField(s) >= 2
    /\ Len(s) - 8 >= LengthField(s) - 2

\* C17: on a stream that holds the header fields with a length field L >= 2
\* (L = 2, an empty payload, included) and at least L-2 further bytes,
\* ReadFrame returns without error the frame whose header fields are the
\* big-endian decoding of the header bytes and whose payload is the next
\* L-2 bytes, and leaves the bytes after them on the stream.
C17_ReadFrameDecodes ==
    [][(pc = "read" /\ HoldsFrame(stream)) =>
           /\ err' = "nil"
           /\ pc' = "serve"
           /\ req'.header = [Tid |-> stream[1] * 256 + stream[2],
                             Pid |-> stream[3] * 256 + stream[4],
                             Length |-> LengthField(stream),
                             Uid |-> stream[7],
                             Fcode |-> stream[8]]
           /\ req'.data = SubSeq(stream, 9, 6 + LengthField(stream))
           /\ stream' = SubSeq(stream, 7 + LengthField(stream), Len(stream))]_vars

---------------------------------------------------------------------------
(* C18 *)

\* the stream s ends before the header is complete, or holds fewer bytes
\* after the header than the length field asks for
EndsEarly(s) ==
    \/ Len(s) < 8
    \/ Len(s) - 8 < (LengthField(s) - 2) % 65536

\* C18: on a stream that ends before the header bytes are complete, or that
\* holds fewer than length-2 bytes after the header, ReadFrame returns an
\* error and the serve loop gets no frame: nothing is decoded or served and
\* the connection is closed.
C18_ShortStreamFails ==
    [][(pc = "read" /\ EndsEarly(stream)) =>
           /\ err' # "nil"
           /\ pc' = "closed"
           /\ req' = req
           /\ decoded' = decoded]_vars

\* a first frame has been served, and the second, whose last payload byte
\* never came, has failed as too small
C18_Witness ==
    /\ pc = "closed"
    /\ err = "request too small"
    /\ stream = <<>>
    /\ Len(decoded) = 1
    /\ Len(wire) = 1

---------------------------------------------------------------------------
(* C19 *)

\* s is what a finished request put on the socket in full: a whole frame,
\* or nothing for a request that has no reply
WholeReply(s) == s = <<>> \/ (Len(s) >= 8 /\ Len(s) = 6 + Uint16(s, 4))

\* C19: within one connection requests are handled in arrival order with
\* no pipelining. At most one decoded request is unanswered, and only while
\* its handler runs (or after it panicked, which ends the connection); while
\* the connection is open every earlier request has its reply on the socket
\* in full, so request N+1 is neither decoded nor handled before; the reply
\* just finished is all the handler wrote; and the replies are on the wire
\* in the order of the requests, the i-th carrying the transaction id of
\* the i-th request.
C19_NoPipelining ==
    /\ Len(wire) <= Len(decoded)
    /\ Len(decoded) <= Len(wire) + 1
    /\ Len(decoded) = Len(wire) + 1 =>
          (pc = "serve" \/ (pc = "closed" /\ panicked))
    /\ pc \in {"read", "serve", "idle"} =>
          /\ werr = "nil"
          /\ \A i \in 1..Len(wire) : WholeReply(wire[i])
    /\ pc = "idle" =>
          /\ Len(wire) = Len(decoded)
          /\ wire[Len(wire)] = w.out
          /\ sent = w.out
    /\ \A i \in 1..Len(wire) :
          Len(wire[i]) >= 2 => Uint16(wire[i], 0) = decoded[i]

\* the second request of a connection has been decoded, its handler not yet
\* run, and the reply to the first is on the wire in full
C19_Witness ==
    /\ pc = "serve"
    /\ decoded = <<1, 2>>
    /\ req.header.Tid = 2
    /\ Len(wire) = 1
    /\ Len(wire[1]) = 11
    /\ WholeReply(wire[1])
    /\ Uint16(wire[1], 0) = 1

---------------------------------------------------------------------------
(* C20 *)

\* the handler has answered the request with an exception response: the
\* function code of the request header was raised by 0x80 and the body
\* written is one of the four exception codes
AnsweredException(r, r2, rw2) ==
    /\ r2.header.Fcode = (r.header.Fcode + 128) % 256
    /\ Len(rw2.out) = 9
    /\ rw2.out[9] \in {IllegalFunction, IllegalDataAddress,
                       IllegalDataValue, SlaveFailure}

\* C20: a request answered with an exception response does not close the
\* connection: when no write to the socket has failed, the serve loop goes
\* to idle with the exception reply on the wire, and from idle it goes on
\* to read the next request from the same stream.
C20_ExceptionKeepsOpen ==
    [][/\ (/\ pc = "serve"
           /\ ~panicked'
           /\ AnsweredException(req, req', w')
           /\ werr' = "nil") =>
              /\ pc' = "idle"
              /\ sent' = w'.out
       /\ pc = "idle" =>
              /\ pc' = "read"
              /\ UNCHANGED <<h, stream, decoded, wire, werr>>]_vars

\* after a SlaveFailure reply to the first request the second request of
\* the connection has been decoded and is about to be served
C20_Witness ==
    /\ pc = "serve"
    /\ decoded = <<1, 2>>
    /\ req.header.Tid = 2
    /\ werr = "nil"
    /\ wire = <<<<0, 1, 0, 0, 0, 3, 255, 143, SlaveFailure>>>>

---------------------------------------------------------------------------
(* C21 *)

\* C21: when decoding a request fails, whatever the error (clean EOF, short
\* frame, timeout, reset, oversized request), the handler is not invoked
\* (banks, request and response stay as they are), no byte is written to
\* the peer, the connection goes to Closed, and nothing is read on a closed
\* connection again.
C21_DecodeFailureCloses ==
    [][/\ (pc = "read" /\ err' # "nil") =>
              /\ pc' = "closed"
              /\ UNCHANGED <<h, req, w, panicked>>
              /\ UNCHANGED <<wire, sent, werr, decoded>>
              /\ notified'[Len(notified')] = "closed"
       /\ pc # "closed"]_vars

\* a first request has been answered, then the read deadline passed while
\* the next was read: the connection is closed with one reply on the wire
C21_Witness ==
    /\ pc = "closed"
    /\ err = "i/o timeout"
    /\ ending = "i/o timeout"
    /\ Len(decoded) = 1
    /\ Len(wire) = 1
    /\ Len(wire[1]) = 11
    /\ ~panicked

---------------------------------------------------------------------------
(* C22 *)

\* C22: a failed write to the socket (the reply did not get out in full) is
\* recorded in c.werr; a recorded write error is never cleared; and with a
\* write error recorded the connection is Closed, not Idle, after the reply
\* in progress: no further request is read from it.
C22_WriteErrorCloses ==
    [][/\ (pc = "serve" /\ ~panicked' /\ sent' # w'.out) => werr' # "nil"
       /\ werr # "nil" => werr' = werr
       /\ werr' # "nil" =>
              /\ pc' = "closed"
              /\ notified'[Len(notified')] = "closed"
              /\ UNCHANGED <<stream, decoded>>]_vars

\* the write of the first reply has failed after 10 of its 11 bytes; the
\* connection is closed with the second request unread
C22_Witness ==
    /\ pc = "closed"
    /\ werr = "broken pipe"
    /\ Len(decoded) = 1
    /\ Len(wire) = 1
    /\ Len(wire[1]) = 10
    /\ Len(w.out) = 11
    /\ Len(stream) >= 8
    /\ notified = <<"new", "active", "closed">>

---------------------------------------------------------------------------
(* C23 *)

\* C23: StateActive is notified only when the read before it took at least
\* one byte from the connection; a read that yields no byte at all (clean
\* EOF or timeout right away) notifies no StateActive.
C23_ActiveAfterFirstByte ==
    [][(/\ pc = "read"
        /\ Len(notified') > Len(notified)
        /\ notified'[Len(notified) + 1] = "active") =>
           Len(stream') < Len(stream)]_vars

---------------------------------------------------------------------------
(* C27 *)

\* the number of StateIdle notifications in log
Idles(log) == Cardinality({i \in 1..Len(log) : log[i] = "idle"})

\* C27: the states the ConnState hook of a connection is called with are
\* StateNew first, then Active and Idle alternating from Active on, then,
\* once the connection is closed, one StateClosed as the last; StateHijacked
\* never; each StateIdle stands for a request/response cycle whose reply is
\* on the socket in full with no write error; all this also when the
\* handler panics.
C27_ConnStateSequence ==
    /\ Len(notified) >= 1
    /\ notified[1] = "new"
    /\ \A i \in 2..Len(notified) :
          notified[i] = IF i = Len(notified) /\ pc = "closed" THEN "closed"
                        ELSE IF i % 2 = 0 THEN "active" ELSE "idle"
    /\ pc = "closed" => Len(notified) >= 2
    /\ pc = "serve" => notified[Len(notified)] = "active"
    /\ pc = "idle" => notified[Len(notified)] = "idle" /\ werr = "nil"
    /\ pc = "read" => notified[Len(notified)] \in {"new", "idle"}
    /\ Idles(notified) <= Len(wire)
    /\ \A i \in 1..Idles(notified) : WholeReply(wire[i])
    /\ (werr # "nil" \/ panicked) => Idles(notified) < Len(decoded)

\* a connection whose first request was answered and whose second made the
\* handler panic: New, Active, Idle, Active, Closed
C27_Witness ==
    /\ pc = "closed"
    /\ panicked
    /\ Len(decoded) = 2
    /\ notified = <<"new", "active", "idle", "active", "closed">>

---------------------------------------------------------------------------
(* C30 *)

\* the function codes ServeModbus has an empty case for
SerialOnlyCodes == {ReadExceptionStatus, ReportSlaveId}

\* C30: a request with function code 0x07 or 0x11 that is whole on the
\* stream is decoded and passed to the handler; the handler writes no
\* response body and changes no bank and does not panic, no byte goes to the
\* peer, and the connection goes on to Idle to read the next request.
C30_SerialOnlyAccepted ==
    [][/\ (pc = "read" /\ HoldsFrame(stream) /\ stream[8] \in SerialOnlyCodes) =>
              /\ err' = "nil"
              /\ pc' = "serve"
              /\ req'.header.Fcode = stream[8]
       /\ (pc = "serve" /\ req.header.Fcode \in SerialOnlyCodes) =>
              /\ h' = h
              /\ ~panicked'
              /\ w'.out = <<>>
              /\ sent' = <<>>
              /\ wire' = Append(wire, <<>>)
              /\ pc' = "idle"
              /\ notified'[Len(notified')] = "idle"]_vars

---------------------------------------------------------------------------
(* C28 *)

\* C28: a request that is answered with an exception response leaves the
\* four banks as they were before the request.
C28_ExceptionLeavesBanks ==
    [][(pc = "serve" /\ ~panicked' /\ AnsweredException(req, req', w')) =>
           h' = h]_vars

---------------------------------------------------------------------------
(* C29 *)

ReadCodes ==
    {ReadCoilsCode, ReadDiscreteInputsCode, ReadHoldingRegistersCode,
     ReadInputRegistersCode}

\* C29: over the requests of all connections of a server, no step changes
\* the Inputs or the DiscreteInputs bank or the length of a bank; a request
\* with a read code (0x01-0x04) changes no bank; the Coils bank changes only
\* in serving a request with code 0x05 or 0x0F, the Holdings bank only in
\* serving one with code 0x06, 0x10 or 0x17.
C29_BanksWrittenByTheirCodes ==
    [][/\ h'.Inputs = h.Inputs
       /\ h'.DiscreteInputs = h.DiscreteInputs
       /\ Len(h'.Coils) = Len(h.Coils)
       /\ Len(h'.Holdings) = Len(h.Holdings)
       /\ h'.Coils # h.Coils =>
              /\ pc = "serve"
              /\ req.header.Fcode \in {WriteSingleCoilCode, WriteMultipleCoilsCode}
       /\ h'.Holdings # h.Holdings =>
              /\ pc = "serve"
              /\ req.header.Fcode \in {WriteSingleRegisterCode,
                                       WriteMultipleRegistersCode,
                                       WriteAndReadRegistersCode}
       /\ (pc = "serve" /\ req.header.Fcode \in ReadCodes) => h' = h]_vars

\* a server with four non-empty banks after a coil and a holding register
\* were written and an input register was then read and answered
C29_Witness ==
    /\ pc = "idle"
    /\ req.header.Fcode = ReadInputRegistersCode
    /\ Len(sent) = 11
    /\ h.Coils = <<TRUE>>
    /\ h.Holdings = <<555>>
    /\ h.Inputs # <<>>
    /\ h.DiscreteInputs # <<>>

---------------------------------------------------------------------------
(* slave.go: Server.Serve, the accept loop, and the serve goroutines of   *)
(* the connections it accepted, all on one handler                        *)

\* connections accepted, transient accept errors in a row
MaxConns == 2
MaxStreak == 10

\* 5 * time.Millisecond and 1 * time.Second, in milliseconds
InitialDelay == 5
MaxDelay == 1000

\* the delay doubled without the limit of one second
NextDelayUncapped(d) == IF d = 0 THEN InitialDelay ELSE d * 2

\* tempDelay after a transient accept error
NextDelay(d) ==
    LET doubled == IF d = 0 THEN InitialDelay ELSE d * 2
    IN  IF doubled > MaxDelay THEN MaxDelay ELSE doubled

\* the errors of l.Accept(): one that is a net.Error with Temporary() true,
\* one that is not
AcceptErrors == {"too many open files", "use of closed network connection"}

Temporary(e) == e = "too many open files"

\* Serve returning on every accept error
ServeReturnsAlways(e) == TRUE

\* Serve returns the accept error e
ServeReturns(e) == ~Temporary(e)

\* the handler of the server: one holding register
SrvBanks == [NoBanks EXCEPT !.Holdings = Zeros(1)]

\* a read of the holding register, a write of it, and a request that writes
\* it and then makes the handler panic (read offset 0xFFFF, quantity 1)
SrvRequests ==
    LET env == [Tid |-> 1, Pid |-> 0, Uid |-> 255]
    IN  {Frame(env, ReadHoldingRegistersCode, <<0, 0, 0, 1>>),
         Frame(env, WriteSingleRegisterCode, <<0, 0, 2, 43>>),
         Frame(env, WriteAndReadRegistersCode,
               <<255, 255, 0, 1, 0, 0, 0, 1, 2, 205, 107>>)}

\* the conn of newConn after setState(StateNew); state is the ConnState the
\* hook was last called with for the connection
NewConn ==
    [pc |-> "read", req |-> NoFrame, w |-> NewResponse, sent |-> <<>>,
     panicked |-> FALSE, state |-> "new"]

\* a panic in one serve goroutine taking every connection down
RecoverNone(cs, i) ==
    [j \in DOMAIN cs |-> [cs[j] EXCEPT !.pc = "closed", !.sent = <<>>,
                                       !.state = "closed"]]

\* the deferred function of conn.serve after a panic of the handler on
\* connection i: recover, c.close(), setState(StateClosed)
Recover(cs, i) ==
    [cs EXCEPT ![i] = [@ EXCEPT !.pc = "closed", !.panicked = TRUE,
                                !.sent = <<>>, !.state = "closed"]]

InitServer ==
    /\ h = SrvBanks
    /\ pc = "accept"
    /\ req = NoFrame
    /\ w = NewResponse
    /\ sent = <<>>
    /\ panicked = FALSE
    /\ bitSeq = <<>>
    /\ byteSeq = <<>>
    /\ back = <<>>
    /\ stream = <<>>
    /\ err = "nil"
    /\ decoded = <<>>
    /\ wire = <<>>
    /\ werr = "nil"
    /\ ending = "EOF"
    /\ lrN = noLimit
    /\ notified = <<>>
    /\ pooled = NoPuts
    /\ closes = 0
    /\ listening = TRUE
    /\ returned = "nil"
    /\ tempDelay = 0
    /\ slept = 0
    /\ streak = 0
    /\ conns = <<>>

\* l.Accept() returns a connection: tempDelay = 0, newConn,
\* setState(StateNew), go c.serve()
acceptConn ==
    /\ pc = "accept"
    /\ Len(conns) < MaxConns
    /\ tempDelay' = 0
    /\ streak' = 0
    /\ conns' = Append(conns, NewConn)
    /\ UNCHANGED <<h, pc, req, w, sent, panicked, bitVars, netVars,
                   listening, returned, slept>>

\* l.Accept() returns an error: a temporary one is slept on and the loop
\* continues; any other is returned, and the deferred l.Close() runs
acceptError ==
    /\ pc = "accept"
    /\ \E e \in AcceptErrors :
          IF ServeReturns(e)
          THEN /\ returned' = e
               /\ listening' = FALSE
               /\ pc' = "returned"
               /\ UNCHANGED <<tempDelay, slept, streak>>
          ELSE /\ streak < MaxStreak
               /\ tempDelay' = NextDelay(tempDelay)
               /\ slept' = tempDelay'
               /\ streak' = streak + 1
               /\ UNCHANGED <<returned, listening, pc>>
    /\ UNCHANGED <<h, req, w, sent, panicked, bitVars, netVars, conns>>

\* connection i: readRequest returns a request or the end of the stream;
\* setState(StateActive), and on the error the deferred close and
\* setState(StateClosed)
srvRead(i) ==
    /\ conns[i].pc = "read"
    /\ \E e \in {"nil", "EOF"}, f \in SrvRequests :
          conns' = [conns EXCEPT ![i] =
              [@ EXCEPT !.pc = AfterRead(e),
                        !.req = IF e = "nil" THEN f ELSE NoFrame,
                        !.w = NewResponse,
                        !.sent = <<>>,
                        !.state = IF e = "nil" THEN "active" ELSE "closed"]]
    /\ UNCHANGED <<h, pc, req, w, sent, panicked, bitVars, netVars,
                   listening, returned, tempDelay, slept, streak>>

\* connection i: ServeModbus on the shared handler, finishRequest,
\* setState(StateIdle); a panic runs the deferred function
srvServe(i) ==
    /\ conns[i].pc = "serve"
    /\ LET res == ServeModbus(h, conns[i].req, conns[i].w)
       IN  /\ h' = res.h
           /\ conns' =
                IF res.panic THEN Recover(conns, i)
                ELSE [conns EXCEPT ![i] =
                         [@ EXCEPT !.pc = "idle", !.req = res.r, !.w = res.w,
                                   !.sent = res.w.out, !.state = "idle"]]
    /\ UNCHANGED <<pc, req, w, sent, panicked, bitVars, netVars,
                   listening, returned, tempDelay, slept, streak>>

\* connection i: the serve loop goes round
srvReuse(i) ==
    /\ conns[i].pc = "idle"
    /\ conns' = [conns EXCEPT ![i] =
                    [@ EXCEPT !.pc = "read", !.req = NoFrame,
                              !.w = NewResponse, !.sent = <<>>]]
    /\ UNCHANGED <<h, pc, req, w, sent, panicked, bitVars, netVars,
                   listening, returned, tempDelay, slept, streak>>

NextServer ==
    \/ acceptConn
    \/ acceptError
    \/ \E i \in 1..Len(conns) : srvRead(i)
    \/ \E i \in 1..Len(conns) : srvServe(i)
    \/ \E i \in 1..Len(conns) : srvReuse(i)

SpecServer == InitServer /\ [][NextServer]_vars

---------------------------------------------------------------------------
(* C24 *)

\* min(5 ms * 2^(k-1), 1 s), in milliseconds
Backoff(k) ==
    IF InitialDelay * 2 ^ (k - 1) < MaxDelay
    THEN InitialDelay * 2 ^ (k - 1) ELSE MaxDelay

\* C24: after the k-th transient accept error in a row the accept loop has
\* slept min(5 ms * 2^(k-1), 1 s) and holds that as its delay: 5 ms for the
\* first, doubled for each further one, never above 1 s; after a successful
\* accept the delay is 0 again, so that the next transient error is a first
\* one and sleeps 5 ms.
C24_AcceptBackoff ==
    /\ streak = 0 => tempDelay = 0
    /\ streak >= 1 =>
          /\ slept = Backoff(streak)
          /\ tempDelay = slept
          /\ slept >= InitialDelay
          /\ slept <= MaxDelay

\* the ninth transient error in a row after a connection was accepted: the
\* doubled delay of 1280 ms is cut to 1 s
C24_Witness ==
    /\ Len(conns) = 1
    /\ streak = 9
    /\ slept = MaxDelay
    /\ returned = "nil"

---------------------------------------------------------------------------
(* C25 *)

\* the serve goroutine of connection i can take its next step
CanStep(i) ==
    /\ conns[i].pc = "read" => ENABLED srvRead(i)
    /\ conns[i].pc = "serve" => ENABLED srvServe(i)
    /\ conns[i].pc = "idle" => ENABLED srvReuse(i)

\* C25: Serve returns only on an accept error that is not transient: it
\* returns that error and closes the listener, and accepts nothing after
\* that; a transient accept error leaves Serve running with the listener
\* open; neither changes a connection already accepted, and the serve
\* goroutine of each goes on taking its steps, after Serve has returned too.
C25_AcceptErrorReturns ==
    /\ [](\A i \in 1..Len(conns) : CanStep(i))
    /\ [][/\ (returned = "nil" /\ returned' # "nil") =>
                 /\ pc = "accept"
                 /\ ~Temporary(returned')
                 /\ listening
                 /\ ~listening'
                 /\ pc' = "returned"
                 /\ UNCHANGED <<h, conns>>
          /\ returned # "nil" =>
                 /\ UNCHANGED <<pc, returned, listening, tempDelay, slept, streak>>
                 /\ Len(conns') = Len(conns)
          /\ streak' = streak + 1 =>
                 /\ returned' = "nil"
                 /\ listening'
                 /\ pc' = "accept"
                 /\ UNCHANGED <<h, conns>>]_vars

\* Serve has returned the accept error and closed the listener; of the two
\* connections it had accepted one has a request decoded and about to be
\* served, the other has read back a value written to the holding register
C25_Witness ==
    /\ pc = "returned"
    /\ returned = "use of closed network connection"
    /\ ~listening
    /\ Len(conns) = 2
    /\ conns[1].pc = "serve"
    /\ conns[2].pc = "idle"
    /\ conns[2].sent = <<0, 1, 0, 0, 0, 5, 255, 3, 2, 2, 43>>

---------------------------------------------------------------------------
(* C26 *)

\* the handler panics on the request connection i is about to serve
Panics(i) ==
    /\ conns[i].pc = "serve"
    /\ ServeModbus(h, conns[i].req, conns[i].w).panic

\* C26: a panic of the handler on one connection closes that connection,
\* with StateClosed as its last notification, and changes no other
\* connection and nothing of the accept loop; after it the accept loop can
\* accept and the serve goroutine of every connection can take its next step.
C26_PanicClosesOneConn ==
    /\ []((\E i \in 1..Len(conns) : conns[i].panicked) =>
              /\ (pc = "accept" /\ Len(conns) < MaxConns) => ENABLED acceptConn
              /\ \A j \in 1..Len(conns) :
                    /\ conns[j].pc = "read" => ENABLED srvRead(j)
                    /\ conns[j].pc = "serve" => ENABLED srvServe(j)
                    /\ conns[j].pc = "idle" => ENABLED srvReuse(j))
    /\ [][\A i \in 1..Len(conns) :
              (Panics(i) /\ conns'[i] # conns[i]) =>
                  /\ conns'[i].pc = "closed"
                  /\ conns'[i].state = "closed"
                  /\ conns'[i].panicked
                  /\ conns'[i].sent = <<>>
                  /\ Len(conns') = Len(conns)
                  /\ \A j \in 1..Len(conns) : j # i => conns'[j] = conns[j]
                  /\ UNCHANGED <<pc, returned, listening, tempDelay, slept,
                                 streak>>]_vars

\* the first connection was closed by a panic of a request that had written
\* 0xCD6B to the holding register; the second connection has then read that
\* value and is idle, and Serve is running
C26_Witness ==
    /\ Len(conns) = 2
    /\ conns[1].panicked
    /\ conns[1].state = "closed"
    /\ conns[2].pc = "idle"
    /\ conns[2].state = "idle"
    /\ conns[2].sent = <<0, 1, 0, 0, 0, 5, 255, 3, 2, 205, 107>>
    /\ pc = "accept"
    /\ returned = "nil"

---------------------------------------------------------------------------
(* handler.go on several connections at once: the serve goroutines call   *)
(* ServeModbus on the one RegisterHandler without a lock, so the stores of *)
(* binary.Read into h.Holdings and the loads of binary.Write from it, one  *)
(* register at a time, interleave                                          *)

\* two holding registers
RaceBanks == [NoBanks EXCEPT !.Holdings = <<0, 0>>]

\* the value connection i writes to register r (from 1): high byte i, low byte r
OwnValue(i, r) == 256 * i + r

\* connection i sends WriteAndReadRegisters, writing and reading both
\* registers, and ReadHoldingRegisters of both
RaceRequests(i) ==
    LET env == [Tid |-> i, Pid |-> 0, Uid |-> 255]
    IN  {Frame(env, WriteAndReadRegistersCode,
               <<0, 0, 0, 2, 0, 0, 0, 2, 4, i, 1, i, 2>>),
         Frame(env, ReadHoldingRegistersCode, <<0, 0, 0, 2>>)}

\* WriteAndReadRegisters taking its read range before it stores
PhasesReadFirst(fcode) ==
    IF fcode = WriteAndReadRegistersCode THEN <<"load", "store">> ELSE <<"load">>

\* the accesses of a handler to h.Holdings, in order: binary.Read stores the
\* write range, binary.Write loads the read range
Phases(fcode) ==
    IF fcode = WriteAndReadRegistersCode THEN <<"store", "load">> ELSE <<"load">>

\* a connection between requests
RaceConn ==
    [pc |-> "read", req |-> NoFrame, phase |-> 0, k |-> 0, got |-> <<>>,
     sent |-> <<>>]

\* the handler of connection c is done with a phase: the next phase, or
\* w.Write of the count and the registers loaded, finishRequest and idle
Advance(c) ==
    IF c.phase < Len(Phases(c.req.header.Fcode))
    THEN [c EXCEPT !.pc = Phases(c.req.header.Fcode)[c.phase + 1],
                   !.phase = c.phase + 1, !.k = 0]
    ELSE [c EXCEPT !.pc = "idle", !.phase = 0, !.k = 0, !.got = <<>>,
                   !.sent = WriteCounted(h, c.req, NewResponse,
                                         WriteUint16s(c.got)).w.out]

InitRace ==
    /\ h = RaceBanks
    /\ conns \in {[i \in 1..n |-> RaceConn] : n \in 1..MaxConns}
    /\ pc = "accept"
    /\ req = NoFrame
    /\ w = NewResponse
    /\ sent = <<>>
    /\ panicked = FALSE
    /\ bitSeq = <<>>
    /\ byteSeq = <<>>
    /\ back = <<>>
    /\ stream = <<>>
    /\ err = "nil"
    /\ decoded = <<>>
    /\ wire = <<>>
    /\ werr = "nil"
    /\ ending = "EOF"
    /\ lrN = noLimit
    /\ notified = <<>>
    /\ pooled = NoPuts
    /\ closes = 0
    /\ listening = TRUE
    /\ returned = "nil"
    /\ tempDelay = 0
    /\ slept = 0
    /\ streak = 0

\* connection i: readRequest returns a request, and ServeModbus starts on it,
\* or the stream has ended
raceRead(i) ==
    /\ conns[i].pc = "read"
    /\ \/ \E f \in RaceRequests(i) :
             conns' = [conns EXCEPT ![i] =
                          Advance([@ EXCEPT !.req = f, !.sent = <<>>])]
       \/ conns' = [conns EXCEPT ![i] = [@ EXCEPT !.pc = "closed"]]
    /\ UNCHANGED <<h, pc, req, w, sent, panicked, bitVars, netVars,
                   listening, returned, tempDelay, slept, streak>>

\* connection i: binary.Read stores the next register of the write range
raceStore(i) ==
    /\ conns[i].pc = "store"
    /\ LET c == conns[i]
           woffset == Uint16(c.req.data, 4)
           wnum == Uint16(c.req.data, 6)
           stored == [c EXCEPT !.k = c.k + 1]
       IN  /\ h' = [h EXCEPT !.Holdings[woffset + c.k + 1] =
                                 Uint16(c.req.data, 9 + 2 * c.k)]
           /\ conns' = [conns EXCEPT ![i] =
                           IF c.k + 1 = wnum THEN Advance(stored) ELSE stored]
    /\ UNCHANGED <<pc, req, w, sent, panicked, bitVars, netVars,
                   listening, returned, tempDelay, slept, streak>>

\* connection i: binary.Write loads the next register of the read range;
\* after the last one the reply is written
raceLoad(i) ==
    /\ conns[i].pc = "load"
    /\ LET c == conns[i]
           roffset == Uint16(c.req.data, 0)
           rnum == Uint16(c.req.data, 2)
           loaded == [c EXCEPT !.k = c.k + 1,
                               !.got = Append(c.got, h.Holdings[roffset + c.k + 1])]
       IN  conns' = [conns EXCEPT ![i] =
                        IF c.k + 1 = rnum THEN Advance(loaded) ELSE loaded]
    /\ UNCHANGED <<h, pc, req, w, sent, panicked, bitVars, netVars,
                   listening, returned, tempDelay, slept, streak>>

\* connection i: the serve loop goes round
raceReuse(i) ==
    /\ conns[i].pc = "idle"
    /\ conns' = [conns EXCEPT ![i].pc = "read"]
    /\ UNCHANGED <<h, pc, req, w, sent, panicked, bitVars, netVars,
                   listening, returned, tempDelay, slept, streak>>

NextRace ==
    \/ \E i \in 1..Len(conns) : raceRead(i)
    \/ \E i \in 1..Len(conns) : raceStore(i)
    \/ \E i \in 1..Len(conns) : raceLoad(i)
    \/ \E i \in 1..Len(conns) : raceReuse(i)

SpecRace == InitRace /\ [][NextRace]_vars

---------------------------------------------------------------------------
(* C31 *)

\* the registers in the reply s of a read of n registers
ReplyRegs(s, n) == ReadUint16s(SubSeq(s, 10, Len(s)), n)

\* connection i has been answered: its reply is on the socket
Answered(i) == conns[i].pc = "idle" /\ Len(conns[i].sent) = 13

\* C31: a reply carries for each register the initial value or a value that
\* some connection wrote to that register; and with a single connection
\* there is no mixing: the reply is the one the handler gives when run in
\* one piece on the banks as they are (for WriteAndReadRegisters the values
\* the request itself wrote). With several connections on one handler this
\* is not so: the witness is a reply mixed from the writes of two connections.
C31_SingleConnNoMixing ==
    /\ \A i \in 1..Len(conns) :
          Answered(i) =>
              \A r \in 1..2 :
                  ReplyRegs(conns[i].sent, 2)[r]
                      \in {0} \cup {OwnValue(j, r) : j \in 1..Len(conns)}
    /\ (Len(conns) = 1 /\ Answered(1)) =>
          conns[1].sent = ServeModbus(h, conns[1].req, NewResponse).w.out

\* two connections, both writing registers 0 and 1: the WriteAndReadRegisters
\* reply of the first holds for register 0, which it wrote itself, the value
\* the second wrote, and its own value for register 1; the second has then
\* read the two registers and got that mix of the two writes
C31_Witness ==
    /\ Len(conns) = 2
    /\ Answered(1)
    /\ conns[1].req.header.Fcode = WriteAndReadRegistersCode
    /\ ReplyRegs(conns[1].sent, 2) = <<OwnValue(2, 1), OwnValue(1, 2)>>
    /\ Answered(2)
    /\ conns[2].req.header.Fcode = ReadHoldingRegistersCode
    /\ ReplyRegs(conns[2].sent, 2) = <<OwnValue(2, 1), OwnValue(1, 2)>>

---------------------------------------------------------------------------
(* The serve goroutine of one connection under fair scheduling *)

\* how the read side of a connection ends: as in Endings, or never, when the
\* peer stays silent and the server has no ReadTimeout ("i/o timeout" is
\* the silent peer with a ReadTimeout configured)
LiveEndings == Endings \cup {"blocked"}

InitLive ==
    /\ NoServer
    /\ h \in ConnFixtures
    /\ stream \in ConnStreams
    /\ pc = "read"
    /\ req = NoFrame
    /\ w = NewResponse
    /\ sent = <<>>
    /\ panicked = FALSE
    /\ err = "nil"
    /\ decoded = <<>>
    /\ wire = <<>>
    /\ werr = "nil"
    /\ ending \in LiveEndings
    /\ lrN = noLimit
    /\ notified = <<"new">>
    /\ pooled = NoPuts
    /\ closes = 0
    /\ bitSeq = <<>>
    /\ byteSeq = <<>>
    /\ back = <<>>

\* the serve goroutine is one sequential program: a step that can be taken
\* stays possible until it is taken, and the scheduler runs the goroutine
SpecLive == InitLive /\ [][NextConn]_vars /\ WF_vars(NextConn)

---------------------------------------------------------------------------
(* C32 *)

\* the connection is closed and its resources are released: the
\* bufio.Reader and the bufio.Writer of the connection are in their pools,
\* c.rwc.Close() was called once, StateClosed was the last notification
ClosedAndReleased ==
    /\ pc = "closed"
    /\ pooled.reader = 1
    /\ pooled.writer4k = 1
    /\ closes = 1
    /\ notified[Len(notified)] = "closed"

\* C32: with the serve goroutine scheduled fairly, a connection whose read
\* side ends with EOF, an error or the read timeout (a silent peer with a
\* ReadTimeout configured) is eventually closed, with its reader and writer
\* back in the pools, its socket closed and StateClosed notified, and stays
\* so; the socket is never closed twice, a buffer is never put back twice,
\* and neither happens before the connection is closed.
C32_EventuallyClosed ==
    /\ (ending \in Endings) => <>[]ClosedAndReleased
    /\ [](/\ closes <= 1
          /\ pooled.reader <= 1
          /\ pooled.writer4k <= 1
          /\ pc = "closed" => ClosedAndReleased
          /\ pc # "closed" =>
                 (closes = 0 /\ pooled.reader = 0 /\ pooled.writer4k = 0))

\* a peer that sent one request and then stayed silent: the request was
\* answered, the connection went idle, the read timed out, the connection
\* is closed and released
C32_Witness ==
    /\ ClosedAndReleased
    /\ ending = "i/o timeout"
    /\ err = "i/o timeout"
    /\ stream = <<>>
    /\ Len(decoded) = 1
    /\ pooled.writer2k = 1
    /\ notified = <<"new", "active", "idle", "active", "closed">>

==========================================================================
